---- MODULE Spec2Model ----
(***************************************************************************)
(* Terrain generator desktop application.                                  *)
(*                                                                         *)
(* Spec      : MainWindow and its GenerationThread workers                 *)
(*             (src/ui/main_window.py): the interactive thread with its    *)
(*             modal dialogs, the queue of cross-thread notifications and  *)
(*             the worker pipeline.                                        *)
(* SpecPanel : ControlPanel and the presets directory                      *)
(*             (src/ui/control_panel.py).                                  *)
(* SpecParams: TerrainParams and PresetManager                             *)
(*             (src/core/terrain_params.py, src/presets/preset_manager.py).*)
(* SpecZoom, SpecDrag : PreviewCanvas under its mouse, wheel and key       *)
(*             events (src/ui/preview_canvas.py).                          *)
(* SpecGenerator : runs of the TerrainGenerator pipeline                   *)
(*             (src/core/terrain_generator.py).                            *)
(*                                                                         *)
(* Conventions.  Python None is the number None (0).  Chinese string       *)
(* literals of the source are written in pinyin: "ZiDingYi" is the         *)
(* "custom" sentinel of control_panel.py:115, "MoRen" the "default" entry  *)
(* of control_panel.py:257.                                                *)
(***************************************************************************)
EXTENDS Integers, Sequences, FiniteSets, TLC

VARIABLES
    \* ---- MainWindow (main_window.py:208-233) ----
    current_heightmap,   \* None or the run whose heightmap is displayed
    current_params,      \* None or a parameter value
    current_metadata,    \* NoMetadata or [run, params] of the metadata dict
    generator_thread,    \* None or the GenerationThread referenced
    progress_visible,    \* progress_bar.isVisible()
    progress_value,      \* progress_bar.value()
    panel_enabled,       \* control_panel.isEnabled()
    panel_params,        \* what control_panel.get_parameters() returns
    canvas_heightmap,    \* heightmap held by the preview canvas
    stats_heightmap,     \* heightmap the statistics labels describe
    last_export,         \* NoExport or what the most recent export handler did
    close_event,         \* "none" | "ignored" | "accepted"
    canvas_cleaned,      \* preview_canvas.cleanup() has been called
    config_saved,        \* _save_config() has been called
    \* ---- interactive thread ----
    app,                 \* "running" | "closed" | "aborted"
    stack,               \* open modal dialogs / blocking waits, innermost last
    events,              \* queued cross-thread signal deliveries, FIFO
    \* ---- GenerationThread objects (main_window.py:145-202) ----
    threads,             \* run -> [pc, params, is_running]
    nthreads,            \* number of GenerationThread objects constructed
    \* ---- history (observation only, never read by an action guard) ----
    emitted,             \* run -> sequence of notifications it emitted
    replaced,            \* runs stopped, waited for and replaced by a new run
    stopped_at_close,    \* runs stopped and waited for by closeEvent
    late,                \* <<run, kind>> handled after that run was replaced
    \* ---- ControlPanel and ./presets (control_panel.py) ----
    cp,                  \* the panel's fields, the directory, the last handler
    \* ---- TerrainParams and PresetManager (terrain_params.py, preset_manager.py) ----
    pm,                  \* the directory, the last call and what it returned
    \* ---- PreviewCanvas (preview_canvas.py) ----
    cv,                  \* the canvas's view fields and the last event handled
    \* ---- TerrainGenerator (core/terrain_generator.py) ----
    tg,                  \* the generator's random state and the heightmaps it made
    \* ---- one call of a function of the generator or of the canvas ----
    fn                   \* the function called, its arguments and its result

mwVars == <<current_heightmap, current_params, current_metadata,
            generator_thread, progress_visible, progress_value, panel_enabled,
            panel_params, canvas_heightmap, stats_heightmap, last_export,
            close_event, canvas_cleaned, config_saved, app, stack, events,
            threads, nthreads, emitted, replaced, stopped_at_close, late>>

vars == <<mwVars, cp, pm, cv, tg, fn>>

(***************************************************************************)
(* Bounds and program constants                                            *)
(***************************************************************************)
MaxRuns == 2            \* GenerationThread objects constructed under Spec
OverlapRuns == 3        \* ... under SpecOverlap
WindowRuns == 2         \* ... under SpecWindow
MaxQueue == 3           \* notifications queued and not yet handled
NumParams == 2          \* distinct parameter records the panel can hold
MaxSeed == 1            \* largest value entered into the seed spin box
MoreRegions == 1        \* region counts above the default that are entered
ZoomLimit == 1200       \* largest zoom, in hundredths, followed under SpecZoom
NearZoom == 110         \* ... under SpecDrag
PanLimit == 60          \* largest pan offset, in pixels, followed under SpecDrag
YawLimit == 60          \* largest turn of rotation_y from its default, in degrees
NumGens == 2            \* TerrainGenerator objects
MaxGenRuns == 3         \* runs of the pipeline under SpecGenerator
MaxExtent == 6          \* longest side of a map computed cell by cell
MaxRegions == 5         \* regions of a map computed cell by cell
MaxIterations == 2      \* erosion_iterations of a call of simulate_erosion

None == 0
DefaultParams == 1      \* ControlPanel.default_params = TerrainParams()

Runs == 1..OverlapRuns
ParamVals == 1..NumParams

\* The stages of GenerationThread.run, in program order, with the progress
\* value emitted when the stage has returned.
StageOrder == <<"tectonic", "regions", "climate", "erosion", "post">>
FirstProgress == 10

ProgressAfter(stage) ==
    CASE stage = "tectonic" -> 30
      [] stage = "regions"  -> 50
      [] stage = "climate"  -> 70
      [] stage = "erosion"  -> 90
      [] stage = "post"     -> 100

PcAfter(stage) ==
    CASE stage = "tectonic" -> "regions"
      [] stage = "regions"  -> "climate"
      [] stage = "climate"  -> "erosion"
      [] stage = "erosion"  -> "post"
      [] stage = "post"     -> "emit_finished"

StagePcs == {StageOrder[i] : i \in 1..Len(StageOrder)}

\* Positions of run() at which the pipeline is being executed.
PipelinePcs == {"start", "emit10", "emit_finished"} \cup StagePcs

\* stop() has been called on the thread object (is_running cleared).
Stopped(w) == threads[w].pc # "unborn" /\ ~threads[w].is_running

\* QThread.isRunning(): from start() until the thread function has returned.
IsRunning(w) == threads[w].pc \in PipelinePcs \cup {"exit"}

Notification(w, kind, val) == [run |-> w, kind |-> kind, val |-> val]

\* metadata dict built at main_window.py:184-192 ('params': self.params...)
Metadata(w) == [run |-> w, params |-> threads[w].params]

\* current_metadata = None (main_window.py:214)
NoMetadata == [run |-> None, params |-> None]

\* No export handler has run yet.
NoExport == [action |-> "none", had_heightmap |-> FALSE, effects |-> {}]

Frame(kind, params, thread) == [kind |-> kind, params |-> params, thread |-> thread]

Top == stack[Len(stack)]
Pop == SubSeq(stack, 1, Len(stack) - 1)

\* The interactive thread is inside an event loop (the application loop or
\* the nested loop of a modal dialog), not blocked in QThread.wait().
InEventLoop ==
    /\ app = "running"
    /\ stack # <<>> => Top.kind \notin {"genWait", "closeWait"}

\* No modal dialog is open: the main window accepts user input.
UserIdle == app = "running" /\ stack = <<>>

InDialog(kind) == app = "running" /\ stack # <<>> /\ Top.kind = kind

(***************************************************************************)
(* Initial state: MainWindow.__init__ (and ControlPanel.__init__, which    *)
(* ends with reset_to_defaults(); its parameters_changed signal is not yet *)
(* connected, so current_params stays None).                               *)
(***************************************************************************)
MwInit ==
    /\ current_heightmap = None
    /\ current_params = None
    /\ current_metadata = NoMetadata
    /\ generator_thread = None
    /\ progress_visible = FALSE
    /\ progress_value = 0
    /\ panel_enabled = TRUE
    /\ panel_params = DefaultParams
    /\ canvas_heightmap = None
    /\ stats_heightmap = None
    /\ last_export = NoExport
    /\ close_event = "none"
    /\ canvas_cleaned = FALSE
    /\ config_saved = FALSE
    /\ app = "running"
    /\ stack = <<>>
    /\ events = <<>>
    /\ threads = [w \in Runs |-> [pc |-> "unborn", params |-> None, is_running |-> FALSE]]
    /\ nthreads = 0
    /\ emitted = [w \in Runs |-> <<>>]
    /\ replaced = {}
    /\ stopped_at_close = {}
    /\ late = {}

(***************************************************************************)
(* GenerationThread.run (main_window.py:160-198).  A signal emitted from   *)
(* the worker thread to a slot of the MainWindow, which lives in the       *)
(* interactive thread, is queued and handled there later.                  *)
(* A queued notification is handled even when the window no longer refers  *)
(* to the thread that emitted it, and a thread runs to the end of run()    *)
(* whether or not the window still refers to it.                           *)
(***************************************************************************)
Emit(w, kind, val) ==
    /\ Len(events) < MaxQueue
    /\ events' = Append(events, Notification(w, kind, val))
    /\ emitted' = [emitted EXCEPT ![w] = Append(@, <<kind, val>>)]

WorkerFrame == <<current_heightmap, current_params, current_metadata,
                 generator_thread, progress_visible, progress_value,
                 panel_enabled, panel_params, canvas_heightmap,
                 stats_heightmap, last_export, close_event, canvas_cleaned,
                 config_saved, app, stack, nthreads, replaced,
                 stopped_at_close, late>>

\* line 163: generation_started.emit()
RunStarted(w) ==
    /\ app = "running"
    /\ threads[w].pc = "start"
    /\ Emit(w, "started", 0)
    /\ threads' = [threads EXCEPT ![w].pc = "emit10"]
    /\ UNCHANGED <<cp, pm, cv, tg, fn, WorkerFrame>>

\* line 166: generation_progress.emit(10, ...)
RunProgress10(w) ==
    /\ app = "running"
    /\ threads[w].pc = "emit10"
    /\ Emit(w, "progress", FirstProgress)
    /\ threads' = [threads EXCEPT ![w].pc = "tectonic"]
    /\ UNCHANGED <<cp, pm, cv, tg, fn, WorkerFrame>>

\* A run() whose except clause emits generation_error without ending the
\* run: the failed stage is skipped and the pipeline goes on.
RunStageResuming(w) ==
    /\ app = "running"
    /\ threads[w].pc \in StagePcs
    /\ \E raised \in BOOLEAN :
        IF raised
        THEN /\ Emit(w, "error", 0)
             /\ threads' = [threads EXCEPT ![w].pc = PcAfter(threads[w].pc)]
        ELSE /\ Emit(w, "progress", ProgressAfter(threads[w].pc))
             /\ threads' = [threads EXCEPT ![w].pc = PcAfter(threads[w].pc)]
    /\ UNCHANGED <<cp, pm, cv, tg, fn, WorkerFrame>>

\* lines 167-194, 197-198: one pipeline stage.  Either it returns and the
\* next progress value is emitted, or it raises and the except clause emits
\* generation_error.  ("post" covers post_process and the metadata dict.)
RunStage(w) ==
    /\ app = "running"
    /\ threads[w].pc \in StagePcs
    /\ \E raised \in BOOLEAN :
        IF raised
        THEN /\ Emit(w, "error", 0)
             /\ threads' = [threads EXCEPT ![w].pc = "exit"]
        ELSE /\ Emit(w, "progress", ProgressAfter(threads[w].pc))
             /\ threads' = [threads EXCEPT ![w].pc = PcAfter(threads[w].pc)]
    /\ UNCHANGED <<cp, pm, cv, tg, fn, WorkerFrame>>

\* line 195: generation_finished.emit(heightmap, metadata)
RunFinished(w) ==
    /\ app = "running"
    /\ threads[w].pc = "emit_finished"
    /\ Emit(w, "finished", 0)
    /\ threads' = [threads EXCEPT ![w].pc = "exit"]
    /\ UNCHANGED <<cp, pm, cv, tg, fn, WorkerFrame>>

\* run() returns; the thread ends.
RunReturn(w) ==
    /\ app = "running"
    /\ threads[w].pc = "exit"
    /\ threads' = [threads EXCEPT ![w].pc = "done"]
    /\ UNCHANGED <<cp, pm, cv, tg, fn, WorkerFrame, events, emitted>>

(***************************************************************************)
(* Handlers of the worker's notifications (main_window.py:701-749).  They  *)
(* run in the interactive thread whenever it is inside an event loop,      *)
(* which includes the nested loop of every modal QMessageBox.              *)
(***************************************************************************)
Pending(kind) == InEventLoop /\ events # <<>> /\ Head(events).kind = kind

\* The head notification is taken off the queue; the history notes whether
\* its run had already been replaced.
Dispatch ==
    /\ events' = Tail(events)
    /\ late' = IF Head(events).run \in replaced
               THEN late \cup {<<Head(events).run, Head(events).kind>>}
               ELSE late

\* _on_generation_started, lines 701-706
OnGenerationStarted ==
    /\ Pending("started")
    /\ Dispatch
    /\ progress_visible' = TRUE
    /\ progress_value' = 0
    /\ panel_enabled' = FALSE
    /\ UNCHANGED <<cp, pm, cv, tg, fn, current_heightmap, current_params, current_metadata,
                   generator_thread, panel_params, canvas_heightmap,
                   stats_heightmap, last_export, close_event, canvas_cleaned,
                   config_saved, app, stack, threads, nthreads, emitted,
                   replaced, stopped_at_close>>

\* _on_generation_progress, lines 708-711
OnGenerationProgress ==
    /\ Pending("progress")
    /\ Dispatch
    /\ progress_value' = Head(events).val
    /\ UNCHANGED <<cp, pm, cv, tg, fn, current_heightmap, current_params, current_metadata,
                   generator_thread, progress_visible, panel_enabled,
                   panel_params, canvas_heightmap, stats_heightmap,
                   last_export, close_event, canvas_cleaned, config_saved, app,
                   stack, threads, nthreads, emitted, replaced,
                   stopped_at_close>>

\* A completion handler that forgets the metadata assignment of line 716.
OnGenerationFinishedPartial ==
    /\ Pending("finished")
    /\ Dispatch
    /\ current_heightmap' = Head(events).run
    /\ current_params' = panel_params
    /\ canvas_heightmap' = Head(events).run
    /\ stats_heightmap' = Head(events).run
    /\ generator_thread' = None
    /\ progress_visible' = FALSE
    /\ panel_enabled' = TRUE
    /\ UNCHANGED <<cp, pm, cv, tg, fn, current_metadata, progress_value, panel_params, last_export,
                   close_event, canvas_cleaned, config_saved, app, stack,
                   threads, nthreads, emitted, replaced, stopped_at_close>>

\* _on_generation_finished, lines 713-731
OnGenerationFinished ==
    /\ Pending("finished")
    /\ Dispatch
    /\ current_heightmap' = Head(events).run
    /\ current_metadata' = Metadata(Head(events).run)
    /\ current_params' = panel_params
    /\ canvas_heightmap' = Head(events).run
    /\ stats_heightmap' = Head(events).run
    /\ generator_thread' = None
    /\ progress_visible' = FALSE
    /\ panel_enabled' = TRUE
    /\ UNCHANGED <<cp, pm, cv, tg, fn, progress_value, panel_params, last_export, close_event,
                   canvas_cleaned, config_saved, app, stack, threads, nthreads,
                   emitted, replaced, stopped_at_close>>

\* An error handler that opens the error box without restoring the UI.
OnGenerationErrorBusy ==
    /\ Pending("error")
    /\ Dispatch
    /\ stack' = Append(stack, Frame("errorBox", None, None))
    /\ UNCHANGED <<cp, pm, cv, tg, fn, current_heightmap, current_params, current_metadata,
                   generator_thread, progress_visible, progress_value,
                   panel_enabled, panel_params, canvas_heightmap,
                   stats_heightmap, last_export, close_event, canvas_cleaned,
                   config_saved, app, threads, nthreads, emitted, replaced,
                   stopped_at_close>>

\* _on_generation_error, lines 740-745: the UI is restored and the modal
\* error box opens.
OnGenerationError ==
    /\ Pending("error")
    /\ Dispatch
    /\ progress_visible' = FALSE
    /\ panel_enabled' = TRUE
    /\ stack' = Append(stack, Frame("errorBox", None, None))
    /\ UNCHANGED <<cp, pm, cv, tg, fn, current_heightmap, current_params, current_metadata,
                   generator_thread, progress_value, panel_params,
                   canvas_heightmap, stats_heightmap, last_export, close_event,
                   canvas_cleaned, config_saved, app, threads, nthreads,
                   emitted, replaced, stopped_at_close>>

\* _on_generation_error, lines 746-749: the error box has been dismissed.
ErrorBoxClosed ==
    /\ InDialog("errorBox")
    /\ stack' = Pop
    /\ generator_thread' = None
    /\ UNCHANGED <<cp, pm, cv, tg, fn, current_heightmap, current_params, current_metadata,
                   progress_visible, progress_value, panel_enabled,
                   panel_params, canvas_heightmap, stats_heightmap,
                   last_export, close_event, canvas_cleaned, config_saved, app,
                   events, threads, nthreads, emitted, replaced,
                   stopped_at_close, late>>

(***************************************************************************)
(* _generate_terrain (main_window.py:461-486)                              *)
(***************************************************************************)
\* lines 480-486: a new GenerationThread is constructed, connected, started.
StartThread(params) ==
    /\ nthreads' = nthreads + 1
    /\ threads' = [threads EXCEPT ![nthreads + 1] =
                      [pc |-> "start", params |-> params, is_running |-> TRUE]]
    /\ generator_thread' = nthreads + 1

\* lines 464-472 (and 480-486 when nothing is running)
GenerateRequested(params) ==
    IF generator_thread # None /\ IsRunning(generator_thread)
    THEN /\ stack' = Append(stack, Frame("genConfirm", params, None))
         /\ UNCHANGED <<generator_thread, threads, nthreads>>
    ELSE /\ StartThread(params)
         /\ UNCHANGED stack

\* Ctrl+G, the Generate menu entry, the panel's generate button.
GenerateTerrain(limit) ==
    /\ UserIdle
    /\ nthreads < limit
    /\ GenerateRequested(panel_params)
    /\ UNCHANGED <<cp, pm, cv, tg, fn, current_heightmap, current_params, current_metadata,
                   progress_visible, progress_value, panel_enabled,
                   panel_params, canvas_heightmap, stats_heightmap,
                   last_export, close_event, canvas_cleaned, config_saved, app,
                   events, emitted, replaced, stopped_at_close, late>>

\* lines 473-474: the user answers No.
GenerateDeclined ==
    /\ InDialog("genConfirm")
    /\ stack' = Pop
    /\ UNCHANGED <<cp, pm, cv, tg, fn, current_heightmap, current_params, current_metadata,
                   generator_thread, progress_visible, progress_value,
                   panel_enabled, panel_params, canvas_heightmap,
                   stats_heightmap, last_export, close_event, canvas_cleaned,
                   config_saved, app, events, threads, nthreads, emitted,
                   replaced, stopped_at_close, late>>

\* GenerationThread.stop, lines 200-202
Stop(w) == threads' = [threads EXCEPT ![w].is_running = FALSE]

\* lines 475-477: the user answers Yes; stop() is called and wait() entered.
\* If a terminal notification was handled while the question was open,
\* generator_thread is None and None.stop() raises: no handler catches it.
GenerateConfirmed ==
    /\ InDialog("genConfirm")
    /\ IF generator_thread = None
       THEN /\ app' = "aborted"
            /\ UNCHANGED <<stack, threads>>
       ELSE /\ Stop(generator_thread)
            /\ stack' = Append(Pop, Frame("genWait", Top.params, generator_thread))
            /\ UNCHANGED app
    /\ UNCHANGED <<cp, pm, cv, tg, fn, current_heightmap, current_params, current_metadata,
                   generator_thread, progress_visible, progress_value,
                   panel_enabled, panel_params, canvas_heightmap,
                   stats_heightmap, last_export, close_event, canvas_cleaned,
                   config_saved, events, nthreads, emitted, replaced,
                   stopped_at_close, late>>

\* line 477 returns once the waited-for thread has ended; lines 480-486.
GenerateAfterWait ==
    /\ InDialog("genWait")
    /\ ~IsRunning(Top.thread)
    /\ StartThread(Top.params)
    /\ stack' = Pop
    /\ replaced' = replaced \cup {Top.thread}
    /\ UNCHANGED <<cp, pm, cv, tg, fn, current_heightmap, current_params, current_metadata,
                   progress_visible, progress_value, panel_enabled,
                   panel_params, canvas_heightmap, stats_heightmap,
                   last_export, close_event, canvas_cleaned, config_saved, app,
                   events, emitted, stopped_at_close, late>>

\* _regenerate_terrain, lines 488-494: set_parameters(current_params) puts
\* the record into the controls and the panel emits parameters_changed
\* (handled by _on_parameters_changed), then _generate_terrain runs.
RegenerateTerrain(limit) ==
    /\ UserIdle
    /\ nthreads < limit
    /\ IF current_params # None
       THEN /\ panel_params' = current_params
            /\ current_params' = current_params
            /\ GenerateRequested(current_params)
       ELSE UNCHANGED <<panel_params, current_params, stack,
                        generator_thread, threads, nthreads>>
    /\ UNCHANGED <<cp, pm, cv, tg, fn, current_heightmap, current_metadata, progress_visible,
                   progress_value, panel_enabled, canvas_heightmap,
                   stats_heightmap, last_export, close_event, canvas_cleaned,
                   config_saved, app, events, emitted, replaced,
                   stopped_at_close, late>>

(***************************************************************************)
(* Parameter edits.  Every control change makes the panel emit             *)
(* parameters_changed(get_parameters()) (control_panel.py:596-599), which  *)
(* is connected directly to _on_parameters_changed (main_window.py:406,    *)
(* 439-442).                                                               *)
(***************************************************************************)
\* _on_parameters_changed, lines 439-442, after the panel took value v.
ParametersChanged(v) ==
    /\ panel_params' = v
    /\ current_params' = v

ParamFrame == <<current_heightmap, current_metadata, generator_thread,
                progress_visible, progress_value, panel_enabled,
                canvas_heightmap, stats_heightmap, last_export, close_event,
                canvas_cleaned, config_saved, app, stack, events, threads,
                nthreads, emitted, replaced, stopped_at_close, late>>

\* The user changes a control of the (enabled) control panel.
EditParameter(v) ==
    /\ UserIdle
    /\ panel_enabled
    /\ v # panel_params
    /\ ParametersChanged(v)
    /\ UNCHANGED <<cp, pm, cv, tg, fn, ParamFrame>>

\* _reset_parameters, lines 577-580 (menu, Ctrl+R)
ResetParameters ==
    /\ UserIdle
    /\ ParametersChanged(DefaultParams)
    /\ UNCHANGED <<cp, pm, cv, tg, fn, ParamFrame>>

\* _load_preset, _open_parameters, _paste_parameters (lines 501-575): a
\* record from a file or the clipboard is put into the controls.
LoadParameters(v) ==
    /\ UserIdle
    /\ ParametersChanged(v)
    /\ UNCHANGED <<cp, pm, cv, tg, fn, ParamFrame>>

(***************************************************************************)
(* _new_terrain (main_window.py:444-459)                                   *)
(***************************************************************************)
\* lines 455-459
NewTerrainReset ==
    /\ ParametersChanged(DefaultParams)
    /\ current_heightmap' = None
    /\ current_metadata' = NoMetadata
    /\ canvas_heightmap' = None

NewFrame == <<generator_thread, progress_visible, progress_value,
              panel_enabled, stats_heightmap, last_export, close_event,
              canvas_cleaned, config_saved, app, events, threads, nthreads,
              emitted, replaced, stopped_at_close, late>>

\* lines 446-451, and 455-459 when there is nothing to lose
NewTerrain ==
    /\ UserIdle
    /\ IF current_heightmap # None
       THEN /\ stack' = Append(stack, Frame("newConfirm", None, None))
            /\ UNCHANGED <<current_heightmap, current_params,
                           current_metadata, panel_params, canvas_heightmap>>
       ELSE /\ NewTerrainReset
            /\ UNCHANGED stack
    /\ UNCHANGED <<cp, pm, cv, tg, fn, NewFrame>>

\* lines 452-453
NewTerrainDeclined ==
    /\ InDialog("newConfirm")
    /\ stack' = Pop
    /\ UNCHANGED <<cp, pm, cv, tg, fn, current_heightmap, current_params, current_metadata,
                   panel_params, canvas_heightmap, NewFrame>>

NewTerrainConfirmed ==
    /\ InDialog("newConfirm")
    /\ stack' = Pop
    /\ NewTerrainReset
    /\ UNCHANGED <<cp, pm, cv, tg, fn, NewFrame>>

(***************************************************************************)
(* Export handlers (main_window.py:584-697).  last_export records what the *)
(* handler did: "warning" (the no-terrain box), "dialog" (a file dialog    *)
(* was opened), "dir" (a directory was created), "file" (something was     *)
(* written), "error" (the write raised and the error box was shown).       *)
(***************************************************************************)
Exported(action, effects) ==
    [action |-> action, had_heightmap |-> current_heightmap # None,
     effects |-> effects]

ExportFrame == <<current_heightmap, current_params, current_metadata,
                 generator_thread, progress_visible, progress_value,
                 panel_enabled, panel_params, canvas_heightmap,
                 stats_heightmap, close_event, canvas_cleaned, config_saved,
                 app, stack, events, threads, nthreads, emitted, replaced,
                 stopped_at_close, late>>

\* What the three single-file handlers do once a heightmap exists: the file
\* dialog, then nothing (cancelled), the write, or a write that raises.
SingleExportEffects == {{"dialog"}, {"dialog", "file"}, {"dialog", "error"}}

\* _export_all below its guard: mkdir, then the writes, any of which may
\* raise; files already written stay.
BundleExportEffects == {{"dir", "file"}, {"dir", "error"}, {"dir", "file", "error"}}

\* _export_heightmap, lines 584-601
ExportHeightmap ==
    /\ UserIdle
    /\ IF current_heightmap = None
       THEN last_export' = Exported("heightmap", {"warning"})
       ELSE \E eff \in SingleExportEffects : last_export' = Exported("heightmap", eff)
    /\ UNCHANGED <<cp, pm, cv, tg, fn, ExportFrame>>

\* _export_texture, lines 603-624
ExportTexture ==
    /\ UserIdle
    /\ IF current_heightmap = None
       THEN last_export' = Exported("texture", {"warning"})
       ELSE \E eff \in SingleExportEffects : last_export' = Exported("texture", eff)
    /\ UNCHANGED <<cp, pm, cv, tg, fn, ExportFrame>>

\* _export_mesh, lines 626-643
ExportMesh ==
    /\ UserIdle
    /\ IF current_heightmap = None
       THEN last_export' = Exported("mesh", {"warning"})
       ELSE \E eff \in SingleExportEffects : last_export' = Exported("mesh", eff)
    /\ UNCHANGED <<cp, pm, cv, tg, fn, ExportFrame>>

\* An _export_all without the guard of lines 647-649.
ExportAllUnguarded ==
    /\ UserIdle
    /\ \E eff \in BundleExportEffects : last_export' = Exported("all", eff)
    /\ UNCHANGED <<cp, pm, cv, tg, fn, ExportFrame>>

\* _export_all, lines 645-697 (menu entry and the panel's export button)
ExportAll ==
    /\ UserIdle
    /\ IF current_heightmap = None
       THEN last_export' = Exported("all", {"warning"})
       ELSE \E eff \in BundleExportEffects : last_export' = Exported("all", eff)
    /\ UNCHANGED <<cp, pm, cv, tg, fn, ExportFrame>>

(***************************************************************************)
(* closeEvent (main_window.py:873-896)                                     *)
(***************************************************************************)
\* lines 890-896: cleanup, _save_config, event.accept(); the application
\* ends with its last window (src/terrain_generator.py:32).
Shutdown ==
    /\ canvas_cleaned' = TRUE
    /\ config_saved' = TRUE
    /\ close_event' = "accepted"
    /\ app' = "closed"

CloseFrame == <<current_heightmap, current_params, current_metadata,
                generator_thread, progress_visible, progress_value,
                panel_enabled, panel_params, canvas_heightmap,
                stats_heightmap, last_export, events, nthreads, emitted,
                replaced, late>>

\* lines 876-881, and 890-896 when nothing is running
CloseRequested ==
    /\ UserIdle
    /\ IF generator_thread # None /\ IsRunning(generator_thread)
       THEN /\ stack' = Append(stack, Frame("closeConfirm", None, None))
            /\ close_event' = "none"
            /\ UNCHANGED <<canvas_cleaned, config_saved, app>>
       ELSE /\ Shutdown
            /\ UNCHANGED stack
    /\ UNCHANGED <<cp, pm, cv, tg, fn, CloseFrame, threads, stopped_at_close>>

\* lines 883-885
CloseDeclined ==
    /\ InDialog("closeConfirm")
    /\ close_event' = "ignored"
    /\ stack' = Pop
    /\ UNCHANGED <<cp, pm, cv, tg, fn, CloseFrame, threads, stopped_at_close, canvas_cleaned,
                   config_saved, app>>

\* lines 886-888: stop() is called and wait() entered; None.stop() raises
\* when a terminal notification was handled while the question was open.
CloseConfirmed ==
    /\ InDialog("closeConfirm")
    /\ IF generator_thread = None
       THEN /\ app' = "aborted"
            /\ UNCHANGED <<stack, threads>>
       ELSE /\ Stop(generator_thread)
            /\ stack' = Append(Pop, Frame("closeWait", None, generator_thread))
            /\ UNCHANGED app
    /\ UNCHANGED <<cp, pm, cv, tg, fn, CloseFrame, stopped_at_close, close_event, canvas_cleaned,
                   config_saved>>

\* A closeEvent that calls stop() and goes on without wait().
CloseWithoutWait ==
    /\ InDialog("closeWait")
    /\ Shutdown
    /\ stack' = Pop
    /\ stopped_at_close' = stopped_at_close \cup {Top.thread}
    /\ UNCHANGED <<cp, pm, cv, tg, fn, CloseFrame, threads>>

\* line 888 returns once the thread has ended; lines 890-896.
CloseAfterWait ==
    /\ InDialog("closeWait")
    /\ ~IsRunning(Top.thread)
    /\ Shutdown
    /\ stack' = Pop
    /\ stopped_at_close' = stopped_at_close \cup {Top.thread}
    /\ UNCHANGED <<cp, pm, cv, tg, fn, CloseFrame, threads>>

(***************************************************************************)
(* ControlPanel (src/ui/control_panel.py).  cp is a record:                *)
(*   current_preset, loading_preset      the attributes of lines 115, 118  *)
(*   combo_items, combo_text             preset_combo                      *)
(*   seed_spinbox, num_regions_spinbox   two of the parameter controls, in *)
(*                                       the order set_parameters sets them*)
(*   presets_dir, files                  ./presets and its *.json files    *)
(*   emitted                             payload of the most recent        *)
(*                                       parameters_changed emission       *)
(*   notice                              the most recent message box       *)
(*   op                                  the handler that ran last         *)
(* A handler is an operator from the record before to the record after, so *)
(* that the calls a handler makes compose as they do in the code.          *)
(***************************************************************************)
Custom == "ZiDingYi"
DefaultEntry == "MoRen"

\* seed: Optional[int] = None (terrain_params.py:14)
NoSeed == -1
\* num_regions: int = 4 (terrain_params.py:28)
DefaultNumRegions == 4

SeedVals == 0..MaxSeed
RegionVals == DefaultNumRegions..(DefaultNumRegions + MoreRegions)

\* File stems of ./presets, in the order sorted(glob("*.json")) lists them.
StemOrder == <<"Default", "alpine", "default">>
Stems == {StemOrder[i] : i \in 1..Len(StemOrder)}

\* str.lower() on the stems at hand
Lower(stem) == IF stem = "Default" THEN "default" ELSE stem

\* What a preset file holds: nothing (no such file), a JSON object with the
\* two fields, text json.load rejects, or a JSON object whose num_regions
\* is not a number (QSpinBox.setValue raises TypeError on it).
Absent == [kind |-> "absent", seed |-> NoSeed, num_regions |-> 0]
Malformed == [kind |-> "malformed", seed |-> NoSeed, num_regions |-> 0]
JsonFile(seed, n) == [kind |-> "json", seed |-> seed, num_regions |-> n]
BadType(seed) == [kind |-> "badtype", seed |-> seed, num_regions |-> 0]

\* TerrainParams() (terrain_params.py:9-35)
DefaultRecord == [seed |-> NoSeed, num_regions |-> DefaultNumRegions]

FileOf(st, stem) == IF stem \in Stems THEN st.files[stem] ELSE Absent

Range(s) == {s[i] : i \in 1..Len(s)}

Listed(st, stem) == st.files[stem].kind # "absent" /\ Lower(stem) # "default"

\* _load_presets_to_combo, lines 250-269: the items after the reload
ComboListing(st) ==
    <<Custom, DefaultEntry>> \o SelectSeq(StemOrder, LAMBDA stem : Listed(st, stem))

\* get_parameters, lines 681-720
GetParameters(st) ==
    [seed |-> IF st.seed_spinbox > 0 THEN st.seed_spinbox ELSE NoSeed,
     num_regions |-> st.num_regions_spinbox]

\* _on_parameter_changed, lines 596-606
OnParameterChanged(st) ==
    LET told == [st EXCEPT !.emitted = GetParameters(st)]
    IN  IF ~st.loading_preset /\ st.current_preset # Custom
        THEN [told EXCEPT !.combo_text = Custom, !.current_preset = Custom]
        ELSE told

\* QSpinBox.setValue: valueChanged, connected to _on_parameter_changed
\* (lines 312, 326), fires only when the value changes.
SetValue(st, widget, v) ==
    IF st[widget] = v THEN st ELSE OnParameterChanged([st EXCEPT ![widget] = v])

\* params.seed if params.seed else 0 (line 726)
SeedShown(seed) == IF seed = NoSeed \/ seed = 0 THEN 0 ELSE seed

\* set_parameters, lines 722-762
SetParameters(st, params) ==
    LET s1 == SetValue(st, "seed_spinbox", SeedShown(params.seed))
        s2 == SetValue(s1, "num_regions_spinbox", params.num_regions)
        s3 == IF ~s2.loading_preset THEN OnParameterChanged(s2) ELSE s2
    IN  OnParameterChanged(s3)

\* set_parameters on a record whose num_regions is not a number: the seed is
\* set (line 726), then line 729 raises.
SetParametersRaising(st, params) ==
    SetValue(st, "seed_spinbox", SeedShown(params.seed))

\* reset_to_defaults, lines 764-766
ResetToDefaults(st) == SetParameters(st, DefaultRecord)

\* _create_default_preset, lines 581-594; a failed write is only printed.
CreateDefaultPreset(st, io) ==
    IF io
    THEN [st EXCEPT !.presets_dir = TRUE,
                    !.files["default"] = JsonFile(NoSeed, DefaultNumRegions)]
    ELSE [st EXCEPT !.presets_dir = TRUE]

\* QComboBox.setCurrentText on the non-editable combo: the item is selected
\* if there is one; currentTextChanged(Custom) runs lines 531-533.
SetCurrentTextCustom(st) ==
    IF Custom \in Range(st.combo_items) /\ st.combo_text # Custom
    THEN [st EXCEPT !.combo_text = Custom, !.current_preset = Custom]
    ELSE st

\* _on_preset_changed, lines 529-579
OnPresetChanged(st, preset_name, io) ==
    IF preset_name = Custom
    THEN [st EXCEPT !.current_preset = Custom]
    ELSE
    LET s1 == [st EXCEPT !.presets_dir = TRUE]
        stem == IF preset_name = DefaultEntry THEN "default" ELSE preset_name
        s2 == IF preset_name = DefaultEntry /\ FileOf(s1, stem).kind = "absent"
              THEN CreateDefaultPreset(s1, io)
              ELSE s1
        file == FileOf(s2, stem)
        params == [seed |-> file.seed, num_regions |-> file.num_regions]
        s3 == [s2 EXCEPT !.loading_preset = TRUE, !.current_preset = preset_name]
    IN  CASE file.kind = "absent" ->
                SetCurrentTextCustom([s2 EXCEPT !.notice = "preset missing"])
          [] file.kind = "malformed" ->
                [s2 EXCEPT !.notice = "load failed"]
          [] file.kind = "badtype" ->
                [SetParametersRaising(s3, params) EXCEPT !.notice = "load failed"]
          [] file.kind = "json" ->
                [SetParameters(s3, params) EXCEPT !.loading_preset = FALSE,
                                                  !.emitted = params]

\* QComboBox.setCurrentIndex(findText(text)) when the text is an item
SetCurrentItem(st, text, io) ==
    IF text \in Range(st.combo_items) /\ st.combo_text # text
    THEN OnPresetChanged([st EXCEPT !.combo_text = text], text, io)
    ELSE st

\* _refresh_presets, lines 271-281.  The combo is connected (line 223):
\* clear() of a non-empty combo emits currentTextChanged(""), addItem on the
\* empty combo selects the new item and emits currentTextChanged with it.
RefreshPresets(st, io) ==
    LET current == st.combo_text
        s1 == [st EXCEPT !.combo_items = <<>>, !.combo_text = ""]
        s2 == IF st.combo_items # <<>> THEN OnPresetChanged(s1, "", io) ELSE s1
        s3 == OnPresetChanged([s2 EXCEPT !.combo_items = <<Custom>>,
                                         !.combo_text = Custom], Custom, io)
        s4 == [s3 EXCEPT !.combo_items = ComboListing(s3)]
    IN  SetCurrentItem(s4, current, io)

\* A reserved-name list without the capitalised variant.
ReservedSaveNamesLax == {"ZiDingYi", "MoRen", "default"}

\* The reserved names of line 617
ReservedSaveNames == {"ZiDingYi", "MoRen", "default", "Default"}

\* The protected entries of line 651
ProtectedPresets == {Custom, DefaultEntry}

\* _save_as_preset, lines 608-644: the input dialog returned (name, ok)
SaveAsPreset(st, ok, name, io) ==
    IF ~ok \/ name = ""
    THEN st
    ELSE IF name \in ReservedSaveNames
    THEN [st EXCEPT !.notice = "reserved name"]
    ELSE LET s1 == [st EXCEPT !.presets_dir = TRUE]
             params == GetParameters(s1)
             s2 == [s1 EXCEPT !.files[name] = JsonFile(params.seed, params.num_regions),
                              !.notice = "saved"]
         IN  IF io
             THEN SetCurrentItem(RefreshPresets(s2, io), name, io)
             ELSE [s1 EXCEPT !.notice = "save failed"]

\* _delete_preset, lines 646-677: yes is the answer to the question box
DeletePreset(st, yes, io) ==
    IF st.combo_text \in ProtectedPresets
    THEN [st EXCEPT !.notice = "cannot delete"]
    ELSE IF ~yes
    THEN st
    ELSE LET s1 == [st EXCEPT !.files[st.combo_text] = Absent, !.notice = "deleted"]
         IN  SetCurrentTextCustom(RefreshPresets(s1, io))

\* ControlPanel.__init__, lines 110-125, over a presets directory holding
\* the given files: the combo is filled before it is connected, then
\* reset_to_defaults() runs.
PanelInit(files) ==
    LET st == [current_preset |-> Custom,
               loading_preset |-> FALSE,
               combo_items |-> <<>>,
               combo_text |-> Custom,
               seed_spinbox |-> 0,
               num_regions_spinbox |-> DefaultNumRegions,
               presets_dir |-> \E stem \in Stems : files[stem].kind # "absent",
               files |-> files,
               emitted |-> DefaultRecord,
               notice |-> "none",
               op |-> [kind |-> "init", name |-> ""]]
    IN  ResetToDefaults([st EXCEPT !.combo_items = ComboListing(st)])

\* What ./presets may hold when the program starts.
InitContents(stem) ==
    CASE stem = "default" -> {Absent, JsonFile(NoSeed, DefaultNumRegions), BadType(MaxSeed)}
      [] stem = "Default" -> {Absent, JsonFile(NoSeed, DefaultNumRegions)}
      [] stem = "alpine"  -> {Absent, JsonFile(MaxSeed, DefaultNumRegions + MoreRegions),
                              Malformed, BadType(MaxSeed)}

InitFiles == {f \in [Stems -> UNION {InitContents(stem) : stem \in Stems}] :
                 \A stem \in Stems : f[stem] \in InitContents(stem)}

NoFiles == [stem \in Stems |-> Absent]

Did(st, kind, name) == [st EXCEPT !.op = [kind |-> kind, name |-> name]]

\* The user picks another item of the preset combo (line 223).
SelectPreset(name, io) ==
    /\ name \in Range(cp.combo_items)
    /\ name # cp.combo_text
    /\ cp' = Did(OnPresetChanged([cp EXCEPT !.combo_text = name], name, io),
                 "select", name)
    /\ UNCHANGED <<mwVars, pm, cv, tg, fn>>

\* The user changes the seed spin box (line 312).
EditSeed(v) ==
    /\ v # cp.seed_spinbox
    /\ cp' = Did(SetValue(cp, "seed_spinbox", v), "edit", "seed")
    /\ UNCHANGED <<mwVars, pm, cv, tg, fn>>

\* The user changes the region count spin box (line 326).
EditNumRegions(v) ==
    /\ v # cp.num_regions_spinbox
    /\ cp' = Did(SetValue(cp, "num_regions_spinbox", v), "edit", "num_regions")
    /\ UNCHANGED <<mwVars, pm, cv, tg, fn>>

\* The panel's reset button (line 521)
ResetClicked ==
    /\ cp' = Did(ResetToDefaults(cp), "reset", "")
    /\ UNCHANGED <<mwVars, pm, cv, tg, fn>>

\* The refresh button (line 229)
RefreshClicked(io) ==
    /\ cp' = Did(RefreshPresets(cp, io), "refresh", "")
    /\ UNCHANGED <<mwVars, pm, cv, tg, fn>>

\* Names typed into the input dialog of _save_as_preset
SaveNames == {"", "ZiDingYi", "MoRen", "default", "Default", "alpine"}

\* The save button (line 234)
SaveClicked(ok, name, io) ==
    /\ cp' = Did(SaveAsPreset(cp, ok, name, io), "save", IF ok THEN name ELSE "")
    /\ UNCHANGED <<mwVars, pm, cv, tg, fn>>

\* The delete button (line 239)
DeleteClicked(yes, io) ==
    /\ cp' = Did(DeletePreset(cp, yes, io), "delete", cp.combo_text)
    /\ UNCHANGED <<mwVars, pm, cv, tg, fn>>

(***************************************************************************)
(* TerrainParams (src/core/terrain_params.py) and PresetManager            *)
(* (src/presets/preset_manager.py).                                        *)
(*                                                                         *)
(* A Python value is [t, v, s]: its type, its integers and its text.  A    *)
(* JSON value has the same shape with JSON's types.  A record of the data  *)
(* model is the function from the names of its instance attributes to      *)
(* their values; the fields size, seed and num_regions are modelled,       *)
(* num_regions standing for the thirteen fields __post_init__ leaves       *)
(* alone.  A file name is a sequence of pieces, ".json" being one piece.   *)
(***************************************************************************)
PyInt(n)   == [t |-> "int",   v |-> <<n>>, s |-> ""]
PyNone     == [t |-> "none",  v |-> <<>>,  s |-> ""]
PyTuple(q) == [t |-> "tuple", v |-> q,     s |-> ""]
PyList(q)  == [t |-> "list",  v |-> q,     s |-> ""]
PyStr(x)   == [t |-> "str",   v |-> <<>>,  s |-> x]

JNum(n)    == [t |-> "number", v |-> <<n>>, s |-> ""]
JNull      == [t |-> "null",   v |-> <<>>,  s |-> ""]
JArr(q)    == [t |-> "array",  v |-> q,     s |-> ""]
JStr(x)    == [t |-> "string", v |-> <<>>,  s |-> x]

\* json.dumps of one value (terrain_params.py:54, preset_manager.py:49)
JsonOf(py) ==
    CASE py.t = "int"   -> JNum(py.v[1])
      [] py.t = "none"  -> JNull
      [] py.t = "tuple" -> JArr(py.v)
      [] py.t = "list"  -> JArr(py.v)
      [] py.t = "str"   -> JStr(py.s)

\* json.loads / json.load of one value (terrain_params.py:68, preset_manager.py:34)
PyOf(js) ==
    CASE js.t = "number" -> PyInt(js.v[1])
      [] js.t = "null"   -> PyNone
      [] js.t = "array"  -> PyList(js.v)
      [] js.t = "string" -> PyStr(js.s)

json_dumps(d) == [k \in DOMAIN d |-> JsonOf(d[k])]
json_loads(doc) == [k \in DOMAIN doc |-> PyOf(doc[k])]

\* What a call did: the value it returned, or the exception it raised
NoValue == [k \in {} |-> PyNone]
Returned(value) == [raised |-> "", value |-> value]
Raised(exc) == [raised |-> exc, value |-> NoValue]

\* The fields of the dataclass (terrain_params.py:14-36) and their defaults
FieldNames == {"size", "seed", "num_regions"}
FieldDefaults ==
    [k \in FieldNames |->
        CASE k = "size" -> PyTuple(<<1024, 1024>>)
          [] k = "seed" -> PyNone
          [] k = "num_regions" -> PyInt(DefaultNumRegions)]

\* Attributes every record has through its class: the methods
\* (terrain_params.py:38-69)
ClassAttrs == {"to_dict", "to_json", "from_dict", "from_json"}

\* TerrainParams.__post_init__
post_init(self) ==
    [k \in DOMAIN self |->
        IF k = "size" /\ self[k].t = "list" THEN PyTuple(self[k].v)
        ELSE IF k = "seed" /\ self[k] = PyInt(0) THEN PyNone
        ELSE self[k]]

\* TerrainParams(**kwargs): the generated __init__, then __post_init__
TerrainParams(kwargs) ==
    IF DOMAIN kwargs \subseteq FieldNames
    THEN Returned(post_init([k \in FieldNames |->
                    IF k \in DOMAIN kwargs THEN kwargs[k] ELSE FieldDefaults[k]]))
    ELSE Raised("TypeError")

NoArgs == [k \in {} |-> PyNone]
DefaultTerrainParams == TerrainParams(NoArgs).value

\* TerrainParams.to_dict: asdict reads the dataclass fields; the call goes
\* through the attribute lookup, where an instance attribute named to_dict
\* comes before the method
to_dict(self) ==
    IF "to_dict" \in DOMAIN self
    THEN Raised("TypeError")
    ELSE Returned([k \in FieldNames |-> self[k]])

\* TerrainParams.to_json
to_json(self) ==
    LET d == to_dict(self)
    IN  IF d.raised # "" THEN d ELSE Returned(json_dumps(d.value))

\* TerrainParams.from_dict
from_dict(data) ==
    LET converted == [k \in DOMAIN data |->
                        IF k = "size" /\ data[k].t = "list"
                        THEN PyTuple(data[k].v) ELSE data[k]]
    IN  TerrainParams(converted)

\* TerrainParams.from_json
from_json(json_str) == from_dict(json_loads(json_str))

\* ControlPanel.get_parameters (control_panel.py:681-688, 691): a default
\* record whose fields are assigned from the spin boxes
get_parameters(width, height, seed_value, num_regions) ==
    [k \in FieldNames |->
        CASE k = "size" -> PyTuple(<<width, height>>)
          [] k = "seed" -> IF seed_value > 0 THEN PyInt(seed_value) ELSE PyNone
          [] k = "num_regions" -> PyInt(num_regions)]

\* ---- the presets directory ----
Json == ".json"
PresetNames == {<<>>, <<"a">>, <<"b">>}
PresetPath(preset_name) == preset_name \o <<Json>>
PresetPaths == {PresetPath(n) : n \in PresetNames}

\* pathlib's stem: the name without its last suffix; a name that is only a
\* leading dot and letters has no suffix
Stem(path) == IF Len(path) = 1 THEN path ELSE SubSeq(path, 1, Len(path) - 1)

NoFile == [exists |-> FALSE, doc |-> [k \in {} |-> JNull]]
FileWith(doc) == [exists |-> TRUE, doc |-> doc]
EmptyDir == [p \in PresetPaths |-> NoFile]
Present(files) == {p \in PresetPaths : files[p].exists}

\* Python's order on the strings that occur as names
PieceOrder == <<Json, "a", "b">>
PieceRank(piece) == CHOOSE i \in DOMAIN PieceOrder : PieceOrder[i] = piece
RECURSIVE StrLess(_, _)
StrLess(x, y) ==
    IF y = <<>> THEN FALSE
    ELSE IF x = <<>> THEN TRUE
    ELSE IF Head(x) = Head(y) THEN StrLess(Tail(x), Tail(y))
    ELSE PieceRank(Head(x)) < PieceRank(Head(y))

\* sorted(): insertion into the sorted rest
RECURSIVE Insert(_, _)
Insert(x, q) ==
    IF q = <<>> THEN <<x>>
    ELSE IF StrLess(Head(q), x) THEN <<Head(q)>> \o Insert(x, Tail(q))
    ELSE <<x>> \o q
RECURSIVE sorted(_)
sorted(q) == IF q = <<>> THEN <<>> ELSE Insert(Head(q), sorted(Tail(q)))

\* The orders in which glob can yield the files of the directory
GlobOrdersOf(paths) ==
    {q \in [1..Cardinality(paths) -> paths] :
        \A p \in paths : \E i \in DOMAIN q : q[i] = p}
GlobOrders(files) == GlobOrdersOf(Present(files))
AllGlobOrders == UNION {GlobOrdersOf(paths) : paths \in SUBSET PresetPaths}

\* PresetManager.list_presets, glob yielding the files in the order glob
list_presets(files, glob) == sorted([i \in DOMAIN glob |-> Stem(glob[i])])

\* load_preset reading a file the directory does have, whatever the name
LoadPresetFallback(files, preset_name) ==
    LET other == IF Present(files) = {} THEN PresetPath(preset_name)
                 ELSE CHOOSE p \in Present(files) : TRUE
        params_dict == json_loads(files[other].doc)
    IN  [key \in FieldNames |->
            IF key \in DOMAIN params_dict THEN params_dict[key]
            ELSE DefaultTerrainParams[key]]

\* PresetManager.load_preset: the returned record
load_preset(files, preset_name) ==
    LET preset_path == PresetPath(preset_name)
        params_dict == json_loads(files[preset_path].doc)
        params == DefaultTerrainParams
        copied == {key \in DOMAIN params_dict :
                        key \in DOMAIN params \cup ClassAttrs}
    IN  IF ~files[preset_path].exists
        THEN DefaultTerrainParams
        ELSE [key \in DOMAIN params \cup copied |->
                IF key \in copied THEN params_dict[key] ELSE params[key]]

\* PresetManager.save_preset: the directory afterwards
save_preset(files, preset_name, params) ==
    [files EXCEPT ![PresetPath(preset_name)] = FileWith(json_dumps(params))]

\* PresetManager.delete_preset: the directory afterwards
delete_preset(files, preset_name) ==
    IF files[PresetPath(preset_name)].exists
    THEN [files EXCEPT ![PresetPath(preset_name)] = NoFile]
    ELSE files

\* ---- documents and arguments the calls are tried with ----
DocKeys == FieldNames \cup {"to_dict", "bogus"}
DocChoices(k) ==
    CASE k = "size" -> {JArr(<<2, 3>>)}
      [] k = "seed" -> {JNull} \cup {JNum(n) : n \in SeedVals}
      [] k = "num_regions" -> {JNum(DefaultNumRegions + MoreRegions)}
      [] k = "to_dict" -> {JStr("x")}
      [] k = "bogus" -> {JNum(7)}
DocsOver(K) == {d \in [K -> UNION {DocChoices(k) : k \in K}] :
                    \A k \in K : d[k] \in DocChoices(k)}
Docs == UNION {DocsOver(K) : K \in SUBSET DocKeys}
KwArgs == {json_loads(d) : d \in Docs}
SavedRecords == {DefaultTerrainParams,
                 get_parameters(2, 3, MaxSeed, DefaultNumRegions + MoreRegions)}

\* Calls that return a record of the data model
Producers == {"TerrainParams", "from_json", "get_parameters", "load_preset"}
Produced(st) == st.call \in Producers /\ st.result.raised = ""

\* pm after a call: what was called, on what, and what came back
Called(st, call, preset_name, arg, result) ==
    [st EXCEPT !.call = call, !.name = preset_name, !.arg = arg,
               !.result = result, !.listing = <<>>]

\* The presets directory as the program finds it, no call made yet
PmInit(files) ==
    [files   |-> files,
     saved   |-> {n \in PresetNames : files[PresetPath(n)].exists},
     call    |-> "",
     name    |-> <<>>,
     arg     |-> NoValue,
     result  |-> Returned(NoValue),
     listing |-> <<>>]

InitDirs == {[EmptyDir EXCEPT ![PresetPath(<<"a">>)] = f] :
                f \in {NoFile} \cup {FileWith(d) : d \in Docs}}

\* TerrainParams(**kwargs) (main_window.py:571)
CallTerrainParams(kwargs) ==
    /\ pm' = Called(pm, "TerrainParams", <<>>, NoValue, TerrainParams(kwargs))
    /\ UNCHANGED <<mwVars, cp, cv, tg, fn>>

\* TerrainParams.from_json(document)
CallFromJson(doc) ==
    /\ pm' = Called(pm, "from_json", <<>>, doc, from_json(doc))
    /\ UNCHANGED <<mwVars, cp, cv, tg, fn>>

\* ControlPanel.get_parameters() with the spin boxes at these values
CallGetParameters(seed_value, num_regions) ==
    /\ pm' = Called(pm, "get_parameters", <<>>, NoValue,
                    Returned(get_parameters(2, 3, seed_value, num_regions)))
    /\ UNCHANGED <<mwVars, cp, cv, tg, fn>>

\* from_json(p.to_json()) for the record p the last call returned
RoundTrip ==
    /\ Produced(pm)
    /\ LET p == pm.result.value
           json_str == to_json(p)
       IN  pm' = Called(pm, "round_trip", <<>>, p,
                        IF json_str.raised # "" THEN json_str
                        ELSE from_json(json_str.value))
    /\ UNCHANGED <<mwVars, cp, cv, tg, fn>>

\* PresetManager.list_presets()
CallListPresets(glob) ==
    /\ glob \in GlobOrders(pm.files)
    /\ pm' = [Called(pm, "list_presets", <<>>, NoValue, Returned(NoValue))
                EXCEPT !.listing = list_presets(pm.files, glob)]
    /\ UNCHANGED <<mwVars, cp, cv, tg, fn>>

\* PresetManager.load_preset(preset_name)
CallLoadPreset(preset_name) ==
    /\ pm' = Called(pm, "load_preset", preset_name, NoValue,
                    Returned(load_preset(pm.files, preset_name)))
    /\ UNCHANGED <<mwVars, cp, cv, tg, fn>>

\* PresetManager.save_preset(preset_name, params)
CallSavePreset(preset_name, params) ==
    /\ pm' = [Called(pm, "save_preset", preset_name, NoValue, Returned(NoValue))
                EXCEPT !.files = save_preset(pm.files, preset_name, params),
                       !.saved = pm.saved \cup {preset_name}]
    /\ UNCHANGED <<mwVars, cp, cv, tg, fn>>

\* PresetManager.delete_preset(preset_name)
CallDeletePreset(preset_name) ==
    /\ pm' = [Called(pm, "delete_preset", preset_name, NoValue, Returned(NoValue))
                EXCEPT !.files = delete_preset(pm.files, preset_name),
                       !.saved = pm.saved \ {preset_name}]
    /\ UNCHANGED <<mwVars, cp, cv, tg, fn>>


(***************************************************************************)
(* PreviewCanvas (src/ui/preview_canvas.py).                               *)
(*                                                                         *)
(* zoom_level is kept in hundredths, a product being rounded to the        *)
(* nearest hundredth; angles are in degrees, mouse positions in pixels     *)
(* (even, so that half a distance is a whole number), a QPoint is <<x, y>>.*)
(***************************************************************************)
NoPos == <<>>
Positions == {<<0, 0>>, <<60, 0>>, <<0, 60>>}
WheelDeltas == {-120, 0, 120}
Keys == {"Space", "G", "A", "R", "Equal", "Plus", "Minus", "Underscore", "Other"}
Buttons == {"Left", "Right", "Middle"}

\* PreviewCanvas.__init__ (lines 14-43)
CvInit ==
    [show_grid      |-> FALSE,
     show_axes      |-> TRUE,
     view_mode      |-> "2D",
     zoom_level     |-> 100,
     pan_offset     |-> <<0, 0>>,
     rotation_x     |-> 30,
     rotation_y     |-> 45,
     last_mouse_pos |-> NoPos,
     is_dragging    |-> FALSE,
     moved_to       |-> NoPos]

Max(a, b) == IF a > b THEN a ELSE b
Min(a, b) == IF a < b THEN a ELSE b

\* zoom_level * 1.1 and zoom_level * 0.9
ZoomIn(zoom) == (zoom * 11 + 5) \div 10
ZoomOut(zoom) == (zoom * 9 + 5) \div 10

\* delta * 0.5
Half(delta) == delta \div 2

\* The truth value of a QPoint held in last_mouse_pos: None is false, and
\* so is the null point QPoint(0, 0)
Truthy(pos) == pos # NoPos /\ pos # <<0, 0>>

\* How far the model follows the fields the canvas never bounds
Within(st, lim) ==
    /\ st.zoom_level <= lim.zoom /\ st.zoom_level * lim.zoom >= 100 * 100
    /\ \A i \in 1..2 : st.pan_offset[i] <= lim.pan /\ -st.pan_offset[i] <= lim.pan
    /\ st.rotation_y - 45 <= lim.yaw /\ 45 - st.rotation_y <= lim.yaw

\* mousePressEvent (lines 269-280)
mousePressEvent(st, button, pos) ==
    IF button = "Left"
    THEN [st EXCEPT !.last_mouse_pos = pos, !.is_dragging = TRUE]
    ELSE IF button = "Right"
    THEN [st EXCEPT !.view_mode = IF st.view_mode = "2D" THEN "3D" ELSE "2D"]
    ELSE st

\* mouseMoveEvent (lines 282-299)
mouseMoveEvent(st, pos) ==
    IF st.is_dragging /\ Truthy(st.last_mouse_pos)
    THEN LET delta == <<pos[1] - st.last_mouse_pos[1], pos[2] - st.last_mouse_pos[2]>>
             moved == IF st.view_mode = "2D"
                      THEN [st EXCEPT !.pan_offset = <<st.pan_offset[1] + delta[1],
                                                       st.pan_offset[2] + delta[2]>>]
                      ELSE IF st.view_mode = "3D"
                      THEN [st EXCEPT !.rotation_y = st.rotation_y + Half(delta[1]),
                                      !.rotation_x = Max(-90, Min(90,
                                            st.rotation_x + Half(delta[2])))]
                      ELSE st
         IN  [moved EXCEPT !.last_mouse_pos = pos]
    ELSE st

\* mouseReleaseEvent (lines 301-307)
mouseReleaseEvent(st, button) ==
    IF button = "Left"
    THEN [st EXCEPT !.is_dragging = FALSE, !.last_mouse_pos = NoPos]
    ELSE st

\* wheelEvent that zooms in either view
WheelEventAnyView(st, delta) ==
    LET zoomed == IF delta > 0 THEN ZoomIn(st.zoom_level)
                  ELSE ZoomOut(st.zoom_level)
    IN  [st EXCEPT !.zoom_level = Max(10, Min(1000, zoomed))]

\* wheelEvent (lines 309-320)
wheelEvent(st, delta) ==
    IF st.view_mode = "2D"
    THEN LET zoomed == IF delta > 0 THEN ZoomIn(st.zoom_level)
                       ELSE ZoomOut(st.zoom_level)
         IN  [st EXCEPT !.zoom_level = Max(10, Min(1000, zoomed))]
    ELSE st

\* keyPressEvent (lines 324-357)
keyPressEvent(st, key) ==
    CASE key = "Space" ->
            [st EXCEPT !.view_mode = IF st.view_mode = "2D" THEN "3D" ELSE "2D"]
      [] key = "G" -> [st EXCEPT !.show_grid = ~st.show_grid]
      [] key = "A" -> [st EXCEPT !.show_axes = ~st.show_axes]
      [] key = "R" ->
            [st EXCEPT !.zoom_level = 100, !.pan_offset = <<0, 0>>,
                       !.rotation_x = 30, !.rotation_y = 45]
      [] key \in {"Equal", "Plus"} -> [st EXCEPT !.zoom_level = ZoomIn(st.zoom_level)]
      [] key \in {"Minus", "Underscore"} ->
            [st EXCEPT !.zoom_level = ZoomOut(st.zoom_level)]
      [] OTHER -> st

\* The canvas after an event: only a mouse move is remembered
AfterEvent(st, moved_to) == [st EXCEPT !.moved_to = moved_to]

MousePress(button, pos) ==
    /\ cv' = AfterEvent(mousePressEvent(cv, button, pos), NoPos)
    /\ UNCHANGED <<mwVars, cp, pm, tg, fn>>

MouseMove(pos, lim) ==
    /\ Within(mouseMoveEvent(cv, pos), lim)
    /\ cv' = AfterEvent(mouseMoveEvent(cv, pos), pos)
    /\ UNCHANGED <<mwVars, cp, pm, tg, fn>>

MouseRelease(button) ==
    /\ cv' = AfterEvent(mouseReleaseEvent(cv, button), NoPos)
    /\ UNCHANGED <<mwVars, cp, pm, tg, fn>>

Wheel(delta, lim) ==
    /\ Within(wheelEvent(cv, delta), lim)
    /\ cv' = AfterEvent(wheelEvent(cv, delta), NoPos)
    /\ UNCHANGED <<mwVars, cp, pm, tg, fn>>

KeyPress(key, lim) ==
    /\ Within(keyPressEvent(cv, key), lim)
    /\ cv' = AfterEvent(keyPressEvent(cv, key), NoPos)
    /\ UNCHANGED <<mwVars, cp, pm, tg, fn>>

\* Any event of the canvas
CanvasEvent(lim) ==
    \/ \E button \in Buttons, pos \in Positions : MousePress(button, pos)
    \/ \E pos \in Positions : MouseMove(pos, lim)
    \/ \E button \in Buttons : MouseRelease(button)
    \/ \E delta \in WheelDeltas : Wheel(delta, lim)
    \/ \E key \in Keys : KeyPress(key, lim)

\* How far each specification follows zoom, pan and yaw
ZoomLimits == [zoom |-> ZoomLimit, pan |-> 0, yaw |-> 0]
DragLimits == [zoom |-> NearZoom, pan |-> PanLimit, yaw |-> YawLimit]

\* ---- one event on a canvas in any view (preview_canvas.py:282-320) ----
\* The canvases an event can find: either view, the zoom at its clamps, at
\* rest and past the upper clamp (where a key press leaves it), a drag
\* under way or not
CanvasStates ==
    {[CvInit EXCEPT !.view_mode = view_mode, !.zoom_level = zoom_level,
                    !.pan_offset = pan_offset, !.rotation_x = rotation_x,
                    !.rotation_y = rotation_y,
                    !.last_mouse_pos = last_mouse_pos,
                    !.is_dragging = (last_mouse_pos # NoPos)] :
        view_mode \in {"2D", "3D"}, zoom_level \in {10, 100, 1000, 1100},
        pan_offset \in {<<0, 0>>, <<60, -60>>}, rotation_x \in {-90, 30, 90},
        rotation_y \in {45, 405}, last_mouse_pos \in {NoPos} \cup Positions}

CanvasCalls ==
    {[name |-> "wheelEvent", st |-> st, arg |-> delta,
      returned |-> FALSE, out |-> st] :
        st \in CanvasStates, delta \in WheelDeltas}
    \cup
    {[name |-> "mouseMoveEvent", st |-> st, arg |-> pos,
      returned |-> FALSE, out |-> st] :
        st \in CanvasStates, pos \in Positions}

CallWheelEvent ==
    /\ fn.name = "wheelEvent" /\ ~fn.returned
    /\ fn' = [fn EXCEPT !.returned = TRUE, !.out = wheelEvent(fn.st, fn.arg)]
    /\ UNCHANGED <<mwVars, cp, pm, cv, tg>>

CallMouseMoveEvent ==
    /\ fn.name = "mouseMoveEvent" /\ ~fn.returned
    /\ fn' = [fn EXCEPT !.returned = TRUE, !.out = mouseMoveEvent(fn.st, fn.arg)]
    /\ UNCHANGED <<mwVars, cp, pm, cv, tg>>

(***************************************************************************)
(* TerrainGenerator (src/core/terrain_generator.py).                       *)
(*                                                                         *)
(* The state of a numpy RandomState is a number, a draw steps it and       *)
(* returns it.  A layer is the sequence of the draws it was computed       *)
(* from: the arithmetic on the arrays has no other input than those and    *)
(* the parameters.  The parameters that never reach a draw are at their    *)
(* defaults.                                                               *)
(***************************************************************************)
NoRng == -1
RngMod == 16
MapSize == 8

Gens == 1..NumGens
GenSeeds == 1..(MaxSeed + 1)
RandomInts == 0..2
GenParams == [seed : {NoSeed} \cup GenSeeds,
              num_regions : {1, 2},
              tectonic_pattern : {"convergent", "stable"}]

\* np.random.RandomState(seed) (line 25)
RandomState(seed) == seed % RngMod

\* One draw: the next state, which is also the number drawn
Draw(rng) == (rng * 5 + 3) % RngMod

RECURSIVE Draws(_, _)
Draws(rng, n) == IF n = 0 THEN <<>> ELSE <<Draw(rng)>> \o Draws(Draw(rng), n - 1)

RECURSIVE After(_, _)
After(rng, n) == IF n = 0 THEN rng ELSE After(Draw(rng), n - 1)

\* TerrainGenerator._init_random keeping a random state the generator
\* already has
InitRandomKeeping(rng, seed, random_int) ==
    IF rng # NoRng THEN rng
    ELSE RandomState(IF seed = NoSeed THEN random_int ELSE seed)

\* TerrainGenerator._init_random: the new self.rng; random_int is what
\* random.randint returns when it is asked
_init_random(rng, seed, random_int) ==
    RandomState(IF seed = NoSeed THEN random_int ELSE seed)

\* TerrainGenerator._perlin_noise_2d: one randn per octave
_perlin_noise_2d(rng, octaves, random_int) ==
    LET start == IF rng = NoRng THEN _init_random(rng, NoSeed, random_int) ELSE rng
    IN  [rng |-> After(start, octaves), out |-> Draws(start, octaves)]

\* Several noise fields one after the other
RECURSIVE Noises(_, _, _)
Noises(rng, octaves, random_int) ==
    IF octaves = <<>> THEN [rng |-> rng, out |-> <<>>]
    ELSE LET first == _perlin_noise_2d(rng, Head(octaves), random_int)
             rest == Noises(first.rng, Tail(octaves), random_int)
         IN  [rng |-> rest.rng, out |-> first.out \o rest.out]

\* TerrainGenerator.generate_tectonic_base: _init_random, the noise of the
\* pattern (lines 189-193, 285-286), the hardness map (303)
generate_tectonic_base(rng, params, random_int) ==
    LET seeded == _init_random(rng, params.seed, random_int)
    IN  Noises(seeded,
               IF params.tectonic_pattern = "convergent"
               THEN <<3, 4, 2, 2>> ELSE <<1, 3, 2>>,
               random_int)

\* self.rng.randint(low, high) on a draw
RandInt(draw, low, high) == low + (draw % (high - low))

\* The while loop of generate_regions (lines 325-342) for one center
RECURSIVE TryCenter(_, _, _, _)
TryCenter(rng, centers, attempts, num_regions) ==
    IF attempts >= 100 THEN [rng |-> rng, found |-> FALSE, center |-> <<0, 0>>]
    ELSE LET cx == RandInt(Draw(rng), MapSize \div 4, (3 * MapSize) \div 4)
             cy == RandInt(Draw(Draw(rng)), MapSize \div 4, (3 * MapSize) \div 4)
             too_close ==
                \E i \in DOMAIN centers :
                    LET dx == cx - centers[i][1]
                        dy == cy - centers[i][2]
                    IN  (dx * dx + dy * dy) * (num_regions * 2) * (num_regions * 2)
                            < MapSize * MapSize
         IN  IF ~too_close
             THEN [rng |-> After(rng, 2), found |-> TRUE, center |-> <<cx, cy>>]
             ELSE TryCenter(After(rng, 2), centers, attempts + 1, num_regions)

\* The for loop of generate_regions (lines 321-350), centers i..num_regions-1
RECURSIVE PlaceCenters(_, _, _, _)
PlaceCenters(rng, centers, i, num_regions) ==
    IF i >= num_regions THEN [rng |-> rng, centers |-> centers]
    ELSE LET try == TryCenter(rng, centers, 0, num_regions)
             evenly == <<(MapSize * ((i % 2) + 1)) \div 3,
                         (MapSize * ((i \div 2) + 1)) \div 3>>
         IN  PlaceCenters(try.rng,
                          Append(centers, IF try.found THEN try.center ELSE evenly),
                          i + 1, num_regions)

RECURSIVE Flat(_)
Flat(pairs) == IF pairs = <<>> THEN <<>> ELSE Head(pairs) \o Flat(Tail(pairs))

\* TerrainGenerator.generate_regions: the centers, then one perturbation
\* field for each (region_contrast is 0.6)
generate_regions(rng, params) ==
    IF params.num_regions = 1 THEN [rng |-> rng, out |-> <<>>, count |-> 1]
    ELSE LET placed == PlaceCenters(rng, <<>>, 0, params.num_regions)
             noise == Noises(placed.rng, [i \in 1..Len(placed.centers) |-> 1], 0)
         IN  [rng |-> noise.rng, out |-> Flat(placed.centers) \o noise.out,
              count |-> Len(placed.centers)]

\* TerrainGenerator.generate_climate: for each region a uniform draw and a
\* noise field
generate_climate(rng, params, regions) ==
    Noises(rng, [i \in 1..regions.count |-> 2], 0)

\* TerrainGenerator.simulate_erosion: no draw
simulate_erosion(heightmap, params, climate_map, regions) ==
    heightmap \o climate_map

\* TerrainGenerator.post_process: the detail noise (line 541)
post_process(rng, heightmap, params) ==
    LET detail_noise == _perlin_noise_2d(rng, 2, 0)
    IN  [rng |-> detail_noise.rng, out |-> heightmap \o detail_noise.out]

\* ---- runs of the pipeline (GenerationThread.run, main_window.py:166-179) ----
NoLayer == <<>>
NoRun == [gen |-> 0, params |-> [seed |-> NoSeed, num_regions |-> 1,
                                 tectonic_pattern |-> "stable"],
          reused |-> FALSE, pc |-> "idle",
          seedings |-> 0, seeded_in |-> {}, stale |-> FALSE,
          tectonic_layer |-> NoLayer, regions |-> [out |-> NoLayer, count |-> 0],
          climate |-> NoLayer, heightmap |-> NoLayer]

\* Generators constructed (line 18), no run made
TgInit == [rng |-> [g \in Gens |-> NoRng], fresh |-> [g \in Gens |-> FALSE],
           run |-> NoRun, runs |-> 0, done |-> {}]

\* ---- history of the random sources (observation only) ----
\* tg.fresh[g]: the RandomState that generator g holds was constructed by
\* the run under way.  run.seedings counts the RandomState objects the run
\* constructed, run.seeded_in names the stages that did, run.stale tells
\* that a stage of the run drew from a source with fresh false.

\* Constructs as if generate_tectonic_base kept a source it finds
ConstructsLazily(stage, rng) ==
    IF stage \in {"tectonic", "post"} /\ rng = NoRng THEN 1 ELSE 0

\* The RandomState objects a stage constructs on the source it finds:
\* generate_tectonic_base one (lines 84, 25), post_process one when it
\* finds none, by its first call of _perlin_noise_2d (lines 541, 33-34)
Constructs(stage, rng) ==
    IF stage = "tectonic" THEN 1
    ELSE IF stage = "post" /\ rng = NoRng THEN 1
    ELSE 0

\* The stages that draw: all but simulate_erosion, and generate_regions
\* only past the early return of lines 316-318
Draws_in(stage, params) ==
    IF stage = "erosion" THEN FALSE
    ELSE IF stage = "regions" THEN params.num_regions > 1
    ELSE TRUE

\* The history after a stage of the run under way
Seeded(stage) ==
    LET g == tg.run.gen
        made == Constructs(stage, tg.rng[g])
        fresh == tg.fresh[g] \/ made > 0
    IN  [fresh |-> fresh,
         seedings |-> tg.run.seedings + made,
         seeded_in |-> IF made > 0 THEN tg.run.seeded_in \cup {stage}
                       ELSE tg.run.seeded_in,
         stale |-> tg.run.stale \/ (Draws_in(stage, tg.run.params) /\ ~fresh)]

\* A run starts on a generator, fresh or used before
StartRun(g, params) ==
    /\ tg.run.pc = "idle"
    /\ tg.runs < MaxGenRuns
    /\ tg' = [tg EXCEPT !.runs = tg.runs + 1,
                        !.run = [NoRun EXCEPT !.gen = g, !.params = params,
                                              !.reused = tg.rng[g] # NoRng,
                                              !.pc = "tectonic"]]
    /\ UNCHANGED <<mwVars, cp, pm, cv, fn>>

GenerateTectonicBase(random_int) ==
    /\ tg.run.pc = "tectonic"
    /\ tg.run.params.seed = NoSeed \/ random_int = 0
    /\ LET r == generate_tectonic_base(tg.rng[tg.run.gen], tg.run.params, random_int)
           h == Seeded("tectonic")
       IN  tg' = [tg EXCEPT !.rng[tg.run.gen] = r.rng,
                            !.fresh[tg.run.gen] = h.fresh,
                            !.run.seedings = h.seedings,
                            !.run.seeded_in = h.seeded_in,
                            !.run.stale = h.stale,
                            !.run.tectonic_layer = r.out,
                            !.run.pc = "regions"]
    /\ UNCHANGED <<mwVars, cp, pm, cv, fn>>

GenerateRegions ==
    /\ tg.run.pc = "regions"
    /\ LET r == generate_regions(tg.rng[tg.run.gen], tg.run.params)
           h == Seeded("regions")
       IN  tg' = [tg EXCEPT !.rng[tg.run.gen] = r.rng,
                            !.fresh[tg.run.gen] = h.fresh,
                            !.run.seedings = h.seedings,
                            !.run.seeded_in = h.seeded_in,
                            !.run.stale = h.stale,
                            !.run.regions = [out |-> r.out, count |-> r.count],
                            !.run.pc = "climate"]
    /\ UNCHANGED <<mwVars, cp, pm, cv, fn>>

GenerateClimate ==
    /\ tg.run.pc = "climate"
    /\ LET r == generate_climate(tg.rng[tg.run.gen], tg.run.params, tg.run.regions)
           h == Seeded("climate")
       IN  tg' = [tg EXCEPT !.rng[tg.run.gen] = r.rng,
                            !.fresh[tg.run.gen] = h.fresh,
                            !.run.seedings = h.seedings,
                            !.run.seeded_in = h.seeded_in,
                            !.run.stale = h.stale,
                            !.run.climate = r.out,
                            !.run.pc = "erosion"]
    /\ UNCHANGED <<mwVars, cp, pm, cv, fn>>

SimulateErosion ==
    /\ tg.run.pc = "erosion"
    /\ LET h == Seeded("erosion")
       IN  tg' = [tg EXCEPT !.run.heightmap =
                                simulate_erosion(tg.run.tectonic_layer, tg.run.params,
                                                 tg.run.climate, tg.run.regions),
                            !.fresh[tg.run.gen] = h.fresh,
                            !.run.seedings = h.seedings,
                            !.run.seeded_in = h.seeded_in,
                            !.run.stale = h.stale,
                            !.run.pc = "post"]
    /\ UNCHANGED <<mwVars, cp, pm, cv, fn>>

PostProcess ==
    /\ tg.run.pc = "post"
    /\ LET r == post_process(tg.rng[tg.run.gen], tg.run.heightmap, tg.run.params)
           h == Seeded("post")
       IN  tg' = [tg EXCEPT !.rng[tg.run.gen] = r.rng,
                            !.fresh[tg.run.gen] = FALSE,
                            !.run = NoRun,
                            !.done = tg.done \cup
                                {[params |-> tg.run.params, reused |-> tg.run.reused,
                                  heightmap |-> r.out,
                                  seedings |-> h.seedings,
                                  seeded_in |-> h.seeded_in,
                                  stale |-> h.stale]}]
    /\ UNCHANGED <<mwVars, cp, pm, cv, fn>>

(***************************************************************************)
(* The arrays of the generator, cell by cell.                              *)
(*                                                                         *)
(* A map of width x height is a function of its cells <<x, y>>, x the      *)
(* column and y the row.  Heights, distances and factors are counted in    *)
(* hundredths.  fn holds one call: the function, its arguments, what the   *)
(* random source gave it, and, once it has returned, its result.           *)
(***************************************************************************)
Cells(width, height) == (0..(width - 1)) \X (0..(height - 1))

\* The values of a map
Values(map) == {map[c] : c \in DOMAIN map}

\* np.sqrt of a whole number, in hundredths
Sqrt100 == [n \in 0..(2 * MaxExtent * MaxExtent) |->
               CHOOSE r \in 0..(200 * MaxExtent) :
                   r * r <= 10000 * n /\ (r + 1) * (r + 1) > 10000 * n]

\* ---- generate_regions (lines 310-371) ----
RegionSizes == {<<4, 4>>, <<6, 4>>}
RegionCounts == 2..MaxRegions
RegionContrasts == {30, 60}

\* What randint can return for cx and cy (lines 326-327)
Candidates(width, height) ==
    ((width \div 4)..(((3 * width) \div 4) - 1))
        \X ((height \div 4)..(((3 * height) \div 4) - 1))

\* too_close (lines 330-336)
TooClose(c, centers, width, height, num_regions) ==
    \E i \in DOMAIN centers :
        LET dx == c[1] - centers[i][1]
            dy == c[2] - centers[i][2]
        IN  (dx * dx + dy * dy) * (num_regions * 2) * (num_regions * 2)
                < Min(width, height) * Min(width, height)

\* The for loop of lines 322-350 over every random source: center i is a
\* candidate that is not too close, or the evenly spread one of lines
\* 346-350 when a hundred attempts found none because there is none
RECURSIVE CenterOutcomes(_, _, _, _, _)
CenterOutcomes(centers, i, width, height, num_regions) ==
    IF i >= num_regions THEN {centers}
    ELSE LET free == {c \in Candidates(width, height) :
                         ~TooClose(c, centers, width, height, num_regions)}
             evenly == <<(width * ((i % 2) + 1)) \div 3,
                         (height * ((i \div 2) + 1)) \div 3>>
         IN  UNION {CenterOutcomes(Append(centers, c), i + 1, width, height,
                                   num_regions) :
                       c \in IF free = {} THEN {evenly} ELSE free}

\* _perlin_noise_2d as generate_regions uses it (line 363): a field with
\* minimum 0 and maximum 1 (lines 68-70), here low or high everywhere but
\* in one corner
NoiseKinds == {"pit", "peak"}
NoiseField(kind, width, height) ==
    [c \in Cells(width, height) |->
        IF kind = "pit" THEN (IF c = <<0, 0>> THEN 0 ELSE 1)
        ELSE (IF c = <<0, height - 1>> THEN 1 ELSE 0)]

\* The loop of lines 356-369 from region_id on; Infinity is np.inf
Infinity == 1000000
RECURSIVE Voronoi(_, _, _, _, _, _, _, _)
Voronoi(region_map, region_distance, region_id, centers, kinds, width, height, region_contrast) ==
    IF region_id >= Len(centers) THEN region_map
    ELSE LET cx == centers[region_id + 1][1]
             cy == centers[region_id + 1][2]
             perturbation == NoiseField(kinds[region_id + 1], width, height)
             distances ==
                [c \in Cells(width, height) |->
                    Sqrt100[(c[1] - cx) * (c[1] - cx) + (c[2] - cy) * (c[2] - cy)]
                    + (IF region_contrast > 30
                       THEN perturbation[c] * region_contrast * 50 ELSE 0)]
             mask == {c \in Cells(width, height) :
                         distances[c] < region_distance[c]}
         IN  Voronoi([c \in Cells(width, height) |->
                         IF c \in mask THEN region_id ELSE region_map[c]],
                     [c \in Cells(width, height) |->
                         IF c \in mask THEN distances[c] ELSE region_distance[c]],
                     region_id + 1, centers, kinds, width, height,
                     region_contrast)

\* TerrainGenerator.generate_regions on the centers and the noise the random
\* source gave
region_map_of(size, num_regions, region_contrast, centers, kinds) ==
    LET width == size[1]
        height == size[2]
    IN  IF num_regions = 1 THEN [c \in Cells(width, height) |-> 0]
        ELSE Voronoi([c \in Cells(width, height) |-> 0],
                     [c \in Cells(width, height) |-> Infinity],
                     0, centers, kinds, width, height, region_contrast)

\* The calls of generate_regions on maps of these sizes
RegionCalls(sizes) ==
    UNION {
        UNION {
            {[name |-> "generate_regions", size |-> size, num_regions |-> n,
              region_contrast |-> region_contrast, centers |-> centers,
              kinds |-> kinds, returned |-> FALSE, region_map |-> <<>>] :
                 centers \in CenterOutcomes(<<>>, 0, size[1], size[2], n),
                 kinds \in IF region_contrast > 30 THEN [1..n -> NoiseKinds]
                           ELSE {[i \in 1..n |-> "pit"]}} :
            size \in sizes, region_contrast \in RegionContrasts} :
        n \in RegionCounts}

CallGenerateRegions ==
    /\ fn.name = "generate_regions" /\ ~fn.returned
    /\ fn' = [fn EXCEPT !.returned = TRUE,
                        !.region_map = region_map_of(fn.size, fn.num_regions,
                                                     fn.region_contrast,
                                                     fn.centers, fn.kinds)]
    /\ UNCHANGED <<mwVars, cp, pm, cv, tg>>

\* ---- simulate_erosion, pass by pass (lines 402-442) ----
\* The heightmap is followed as what was done to it: the mechanisms applied,
\* each with the pass that applied it.  Parameters are in hundredths.
ErosionParams ==
    [erosion_iterations : 0..MaxIterations,
     precipitation : {0, 10, 20, 40},
     river_intensity : {0, 10, 50},
     temperature : {50, 80},
     wind_intensity : {0, 30, 50},
     terrain_age : {30, 50}]

Applied(eroded, iteration, mechanism) ==
    Append(eroded, [iteration |-> iteration, mechanism |-> mechanism])

\* The guard of lines 416-419 with the guard of another parameter pair
HydraulicStepEither(eroded, params, iteration) ==
    IF params.precipitation > 10 \/ params.river_intensity > 10
    THEN Applied(eroded, iteration, "hydraulic") ELSE eroded

\* Lines 416-419
HydraulicStep(eroded, params, iteration) ==
    IF params.precipitation > 10 /\ params.river_intensity > 10
    THEN Applied(eroded, iteration, "hydraulic") ELSE eroded

\* Lines 422-425
ThermalStep(eroded, params, iteration) ==
    IF params.temperature < 80
    THEN Applied(eroded, iteration, "thermal") ELSE eroded

\* Lines 428-431
WindStep(eroded, params, iteration) ==
    IF params.wind_intensity > 30 /\ params.precipitation < 40
    THEN Applied(eroded, iteration, "wind") ELSE eroded

\* Lines 434-440: the smoothing of young terrain, the rescaling
AfterPasses(eroded, params) ==
    (IF params.terrain_age < 50
     THEN Applied(eroded, params.erosion_iterations, "smooth") ELSE eroded)
        \o <<[iteration |-> params.erosion_iterations, mechanism |-> "rescale"]>>

ErosionCalls ==
    {[name |-> "simulate_erosion", params |-> params, iteration |-> 0,
      pc |-> "for", eroded |-> <<>>, returned |-> FALSE] :
        params \in ErosionParams}

\* for iteration in range(params.erosion_iterations) (line 411)
ErosionLoop ==
    /\ fn.name = "simulate_erosion" /\ fn.pc = "for"
    /\ fn' = IF fn.iteration < fn.params.erosion_iterations
             THEN [fn EXCEPT !.pc = "hydraulic"]
             ELSE [fn EXCEPT !.pc = "after"]
    /\ UNCHANGED <<mwVars, cp, pm, cv, tg>>

ErosionHydraulic ==
    /\ fn.name = "simulate_erosion" /\ fn.pc = "hydraulic"
    /\ fn' = [fn EXCEPT !.pc = "thermal",
                        !.eroded = HydraulicStep(fn.eroded, fn.params, fn.iteration)]
    /\ UNCHANGED <<mwVars, cp, pm, cv, tg>>

ErosionThermal ==
    /\ fn.name = "simulate_erosion" /\ fn.pc = "thermal"
    /\ fn' = [fn EXCEPT !.pc = "wind",
                        !.eroded = ThermalStep(fn.eroded, fn.params, fn.iteration)]
    /\ UNCHANGED <<mwVars, cp, pm, cv, tg>>

ErosionWind ==
    /\ fn.name = "simulate_erosion" /\ fn.pc = "wind"
    /\ fn' = [fn EXCEPT !.pc = "for", !.iteration = fn.iteration + 1,
                        !.eroded = WindStep(fn.eroded, fn.params, fn.iteration)]
    /\ UNCHANGED <<mwVars, cp, pm, cv, tg>>

ErosionReturn ==
    /\ fn.name = "simulate_erosion" /\ fn.pc = "after"
    /\ fn' = [fn EXCEPT !.pc = "done", !.returned = TRUE,
                        !.eroded = AfterPasses(fn.eroded, fn.params)]
    /\ UNCHANGED <<mwVars, cp, pm, cv, tg>>

\* ---- the stages on small maps, in numbers ----
\* A heightmap a stage is given: level, or rising from west to east
FieldKinds == {"level", "ramp"}
FieldLevels == {-50, 0, 40, 100}
Field(kind, level, width, height) ==
    [c \in Cells(width, height) |->
        IF kind = "level" THEN level
        ELSE level + (c[1] * 100) \div (width - 1)]

Lowest(map) == CHOOSE v \in Values(map) : \A u \in Values(map) : v <= u
Highest(map) == CHOOSE v \in Values(map) : \A u \in Values(map) : v >= u

\* (a - np.min(a)) / (np.max(a) - np.min(a) + 1e-8), lines 440 and 545, to
\* the hundredth: 0 / 1e-8 is 0, and 1e-8 is lost against a range of a
\* hundredth or more
Rescale(map) ==
    LET lowest == Lowest(map)
        highest == Highest(map)
    IN  [c \in DOMAIN map |->
            IF highest = lowest THEN 0
            ELSE ((map[c] - lowest) * 100) \div (highest - lowest)]

\* ---- post_process (lines 526-547) ----
CoastSides == {4, 10, 20, 24}
CoastSizes == CoastSides \X CoastSides
CoastDistances == {0, 29, 30, 50, 70, 71, 100}

\* _create_coastal_mask with <= for < in the tests of norm_dist
CoastalMaskInclusive(width, height, distance_to_coast) ==
    [c \in Cells(width, height) |->
        LET dist_to_edge == Min(Min(c[1], width - 1 - c[1]),
                                Min(c[2], height - 1 - c[2]))
        IN  IF distance_to_coast < 30
            THEN IF 20 * dist_to_edge <= Min(width, height) THEN 10
                 ELSE IF 10 * dist_to_edge <= Min(width, height) THEN 30
                 ELSE 100
            ELSE 100]

\* TerrainGenerator._create_coastal_mask (lines 549-574); norm_dist is
\* dist_to_edge / min(width, height) * 2, so norm_dist < 0.1 is
\* 20 * dist_to_edge < min(width, height)
_create_coastal_mask(width, height, distance_to_coast) ==
    [c \in Cells(width, height) |->
        LET dist_to_edge == Min(Min(c[1], width - 1 - c[1]),
                                Min(c[2], height - 1 - c[2]))
        IN  IF distance_to_coast < 30
            THEN IF 20 * dist_to_edge < Min(width, height) THEN 10
                 ELSE IF 10 * dist_to_edge < Min(width, height) THEN 30
                 ELSE 100
            ELSE IF distance_to_coast > 70 THEN 100
            ELSE 100]

\* Lines 530-538 of post_process: np.maximum(heightmap, 0), then under
\* distance_to_coast < 0.3 the product with 0.3 + coastal_mask * 0.7.  The
\* result is in ten-thousandths, a height left alone is 100 times itself.
Coasted(heightmap, width, height, distance_to_coast) ==
    LET nonneg == [c \in Cells(width, height) |-> Max(heightmap[c], 0)]
    IN  IF distance_to_coast < 30
        THEN LET coastal_mask ==
                    _create_coastal_mask(width, height, distance_to_coast)
             IN  [c \in Cells(width, height) |->
                     nonneg[c] * (30 + (coastal_mask[c] * 70) \div 100)]
        ELSE [c \in Cells(width, height) |-> nonneg[c] * 100]

\* TerrainGenerator.post_process on what line 538 left: the detail noise of
\* lines 541-542 at weight 0.05, the rescaling of line 545
post_process_of(coasted, detail_noise) ==
    Rescale([c \in DOMAIN coasted |->
                (coasted[c] * 95) \div 100 + detail_noise[c] * 500])

\* The calls of post_process on maps of these sizes
CoastCalls(sizes) ==
    {[name |-> "post_process", size |-> size, distance_to_coast |-> d,
      kind |-> kind, level |-> level, detail |-> detail,
      returned |-> FALSE, coasted |-> <<>>, out |-> <<>>] :
        size \in sizes, d \in CoastDistances, kind \in FieldKinds,
        level \in FieldLevels, detail \in NoiseKinds}

CallPostProcess ==
    /\ fn.name = "post_process" /\ ~fn.returned
    /\ LET width == fn.size[1]
           height == fn.size[2]
           coasted == Coasted(Field(fn.kind, fn.level, width, height),
                              width, height, fn.distance_to_coast)
       IN  fn' = [fn EXCEPT !.returned = TRUE,
                            !.coasted = coasted,
                            !.out = post_process_of(coasted,
                                        NoiseField(fn.detail, width, height))]
    /\ UNCHANGED <<mwVars, cp, pm, cv, tg>>

\* ---- generate_tectonic_base, generate_climate, simulate_erosion in numbers ----
StageSize == <<4, 4>>
NaN == -Infinity - 1

\* params.tectonic_uplift ** 0.8 (line 115), to the hundredth
UpliftPower == [u \in {0, 50, 100} |-> IF u = 50 THEN 57 ELSE u]

\* _generate_hardness_map (lines 300-308) on its noise
_generate_hardness_map(hardness_noise, overall_hardness) ==
    [c \in DOMAIN hardness_noise |->
        hardness_noise[c] * 50 + overall_hardness \div 2]

\* generate_tectonic_base from line 110 on: base is what the generator of
\* the pattern returned, rescaled by its own last statement (line 202)
tectonic_base_of(base, hardness_noise, params) ==
    LET hardness_map == _generate_hardness_map(hardness_noise, params.rock_hardness)
    IN  [c \in DOMAIN base |->
            (((base[c] * (70 + (hardness_map[c] * 30) \div 100)) \div 100)
                * UpliftPower[params.tectonic_uplift]) \div 100]

Clip(v) == Max(0, Min(100, v))

\* The loop of generate_climate (lines 384-398) from region_id on
RECURSIVE ClimateLoop(_, _, _, _, _, _)
ClimateLoop(climate_map, region_id, regions, precipitation, uniforms, kinds) ==
    IF region_id > Highest(regions) THEN climate_map
    ELSE LET region_precip ==
                Clip((precipitation * uniforms[region_id + 1]) \div 100)
             region_noise ==
                NoiseField(kinds[region_id + 1], StageSize[1], StageSize[2])
         IN  ClimateLoop([c \in DOMAIN climate_map |->
                             IF regions[c] = region_id
                             THEN Clip(region_precip + region_noise[c] * 20)
                             ELSE Clip(climate_map[c])],
                         region_id + 1, regions, precipitation, uniforms, kinds)

\* TerrainGenerator.generate_climate on what uniform and the noise gave
climate_map_of(regions, precipitation, uniforms, kinds) ==
    ClimateLoop([c \in DOMAIN regions |-> precipitation], 0, regions,
                precipitation, uniforms, kinds)

\* TerrainGenerator.simulate_erosion with erosion_iterations = 0 and
\* terrain_age >= 0.5: the copy of line 407, the rescaling of line 440
eroded_of(heightmap) == Rescale(heightmap)

StageFields == {Field(kind, level, StageSize[1], StageSize[2]) :
                   kind \in FieldKinds, level \in FieldLevels}
StageRegions ==
    {region_map_of(StageSize, 1, 30, <<>>, <<>>),
     region_map_of(StageSize, 2, 30, <<<<1, 1>>, <<2, 1>>>>, <<"pit", "pit">>)}

\* The calls of the three stages; given is the array the stage starts from
StageCalls ==
    {[name |-> "generate_tectonic_base", given |-> Rescale(given),
      noise |-> <<kind>>,
      params |-> [rock_hardness |-> h, tectonic_uplift |-> u],
      returned |-> FALSE, out |-> <<>>] :
        given \in StageFields, kind \in NoiseKinds,
        h \in {0, 50, 100}, u \in {0, 50, 100}}
    \cup
    {[name |-> "generate_climate", given |-> regions, noise |-> kinds,
      params |-> [precipitation |-> p, uniforms |-> uniforms],
      returned |-> FALSE, out |-> <<>>] :
        regions \in StageRegions, kinds \in [1..2 -> NoiseKinds],
        p \in {0, 50, 100}, uniforms \in [1..2 -> {70, 130}]}
    \cup
    {[name |-> "simulate_erosion", given |-> given, noise |-> <<>>,
      params |-> [erosion_iterations |-> 0, terrain_age |-> 50],
      returned |-> FALSE, out |-> <<>>] :
        given \in StageFields}

CallGenerateTectonicBase ==
    /\ fn.name = "generate_tectonic_base" /\ ~fn.returned
    /\ fn' = [fn EXCEPT !.returned = TRUE,
                        !.out = tectonic_base_of(fn.given,
                                    NoiseField(fn.noise[1], StageSize[1], StageSize[2]),
                                    fn.params)]
    /\ UNCHANGED <<mwVars, cp, pm, cv, tg>>

CallGenerateClimate ==
    /\ fn.name = "generate_climate" /\ ~fn.returned
    /\ fn' = [fn EXCEPT !.returned = TRUE,
                        !.out = climate_map_of(fn.given, fn.params.precipitation,
                                               fn.params.uniforms, fn.noise)]
    /\ UNCHANGED <<mwVars, cp, pm, cv, tg>>

CallSimulateErosion ==
    /\ fn.name = "simulate_erosion" /\ ~fn.returned
    /\ fn' = [fn EXCEPT !.returned = TRUE, !.out = eroded_of(fn.given)]
    /\ UNCHANGED <<mwVars, cp, pm, cv, tg>>

\* ---- _simulate_wind_erosion (lines 508-524) ----
\* One row of three cells; heights in hundredths, the result in
\* hundred-thousandths: a height left alone is 1000 times itself
WindSize == <<3, 1>>
WindHeights == {-50, -20, 0, 30, 100}
WindIntensities == {0, 30, 50, 100}

\* TerrainGenerator._simulate_wind_erosion: erosion_amount is
\* min(height_diff * 0.1 * wind_intensity, heightmap[y, x] * 0.05)
_simulate_wind_erosion(heightmap, wind_intensity) ==
    [c \in DOMAIN heightmap |->
        IF c[1] >= 1 /\ heightmap[c] > heightmap[<<c[1] - 1, c[2]>>]
        THEN LET height_diff == heightmap[c] - heightmap[<<c[1] - 1, c[2]>>]
                 erosion_amount == Min(height_diff * wind_intensity,
                                       heightmap[c] * 50)
             IN  heightmap[c] * 1000 - erosion_amount
        ELSE heightmap[c] * 1000]

WindCalls ==
    {[name |-> "_simulate_wind_erosion", heightmap |-> heightmap,
      wind_intensity |-> wind_intensity, returned |-> FALSE, out |-> <<>>] :
        heightmap \in [Cells(WindSize[1], WindSize[2]) -> WindHeights],
        wind_intensity \in WindIntensities}

CallSimulateWindErosion ==
    /\ fn.name = "_simulate_wind_erosion" /\ ~fn.returned
    /\ fn' = [fn EXCEPT !.returned = TRUE,
                        !.out = _simulate_wind_erosion(fn.heightmap,
                                                       fn.wind_intensity)]
    /\ UNCHANGED <<mwVars, cp, pm, cv, tg>>

(***************************************************************************)
(* Specifications of the main window.                                      *)
(*   Spec        the generation life cycle: workers, their notifications,  *)
(*               generate / replace, close.                                *)
(*   SpecOverlap the same with one more GenerationThread.                  *)
(*   SpecWindow  generation together with every other handler that         *)
(*               touches the window's state (edits, new terrain, export).  *)
(***************************************************************************)
Worker ==
    \/ \E w \in Runs : RunStarted(w)
    \/ \E w \in Runs : RunProgress10(w)
    \/ \E w \in Runs : RunStage(w)
    \/ \E w \in Runs : RunFinished(w)
    \/ \E w \in Runs : RunReturn(w)

Notified ==
    \/ OnGenerationStarted
    \/ OnGenerationProgress
    \/ OnGenerationFinished
    \/ OnGenerationError
    \/ ErrorBoxClosed

LifeCycle(limit) ==
    \/ Worker
    \/ Notified
    \/ GenerateTerrain(limit)
    \/ GenerateDeclined
    \/ GenerateConfirmed
    \/ GenerateAfterWait
    \/ RegenerateTerrain(limit)
    \/ CloseRequested
    \/ CloseDeclined
    \/ CloseConfirmed
    \/ CloseAfterWait

\* No call made
NoCall == [name |-> "none"]

\* The objects a specification does not exercise stay as constructed
PanelIdle == cp = PanelInit(NoFiles)
PmIdle == pm = PmInit(EmptyDir)
CvIdle == cv = CvInit
TgIdle == tg = TgInit
FnIdle == fn = NoCall

Init == MwInit /\ PanelIdle /\ PmIdle /\ CvIdle /\ TgIdle /\ FnIdle

Next == LifeCycle(MaxRuns)
Spec == Init /\ [][Next]_vars

NextOverlap == LifeCycle(OverlapRuns)
SpecOverlap == Init /\ [][NextOverlap]_vars

NextWindow ==
    \/ Worker
    \/ Notified
    \/ GenerateTerrain(WindowRuns)
    \/ GenerateDeclined
    \/ GenerateConfirmed
    \/ GenerateAfterWait
    \/ RegenerateTerrain(WindowRuns)
    \/ \E v \in ParamVals : EditParameter(v)
    \/ ResetParameters
    \/ \E v \in ParamVals : LoadParameters(v)
    \/ NewTerrain
    \/ NewTerrainDeclined
    \/ NewTerrainConfirmed
    \/ ExportHeightmap
    \/ ExportTexture
    \/ ExportMesh
    \/ ExportAll
SpecWindow == Init /\ [][NextWindow]_vars

(***************************************************************************)
(* SpecPanel: the control panel over every initial presets directory.      *)
(***************************************************************************)
InitPanel ==
    /\ MwInit /\ PmIdle /\ CvIdle /\ TgIdle /\ FnIdle
    /\ \E files \in InitFiles : cp = PanelInit(files)

NextPanel ==
    \/ \E name \in Stems \cup {Custom, DefaultEntry}, io \in BOOLEAN :
            SelectPreset(name, io)
    \/ \E v \in SeedVals : EditSeed(v)
    \/ \E v \in RegionVals : EditNumRegions(v)
    \/ ResetClicked
    \/ \E io \in BOOLEAN : RefreshClicked(io)
    \/ \E ok \in BOOLEAN, name \in SaveNames, io \in BOOLEAN :
            SaveClicked(ok, name, io)
    \/ \E yes \in BOOLEAN, io \in BOOLEAN : DeleteClicked(yes, io)
SpecPanel == InitPanel /\ [][NextPanel]_vars

(***************************************************************************)
(* Properties of the generation life cycle                                 *)
(***************************************************************************)
Last(s) == s[Len(s)]

IsPrefix(s, t) == Len(s) <= Len(t) /\ SubSeq(t, 1, Len(s)) = s

\* The head notification is taken off the queue and handled.
Handled(kind) ==
    /\ events # <<>>
    /\ Head(events).kind = kind
    /\ events' = Tail(events)

\* C1: once a confirmed replacement has started the new run, no notification
\* of the replaced run (progress, completion or error) is handled any more,
\* so the only completion handled is that of the new run.
C1_ReplacedRunIsSilent ==
    \A w \in replaced :
        \A kind \in {"started", "progress", "finished", "error"} :
            <<w, kind>> \notin late

\* C2: at most one worker is executing the pipeline at any time.
C2_SinglePipeline ==
    Cardinality({w \in Runs : threads[w].pc \in PipelinePcs}) <= 1

\* C3: what a run emits is "started", then a prefix of the progress values
\* 10, 30, 50, 70, 90, 100 in that order, then at most one terminal
\* notification, which is "finished" only after progress 100 and "error"
\* otherwise; nothing follows the terminal notification, and a run that has
\* left its pipeline has emitted one.
C3_EmissionOrder ==
    \A w \in Runs :
        LET log == emitted[w]
            full == <<<<"started", 0>>, <<"progress", 10>>, <<"progress", 30>>,
                      <<"progress", 50>>, <<"progress", 70>>, <<"progress", 90>>,
                      <<"progress", 100>>>>
            body == IF log # <<>> /\ Last(log)[1] \in {"finished", "error"}
                    THEN SubSeq(log, 1, Len(log) - 1)
                    ELSE log
        IN  /\ IsPrefix(body, full)
            /\ log # <<>> /\ Last(log)[1] = "finished" => body = full
            /\ log # <<>> /\ Last(log)[1] = "error" => Len(body) >= 2
            /\ threads[w].pc \in {"exit", "done"} => body # log

C3_FullRunSeen ==
    \E w \in Runs :
        /\ Len(emitted[w]) = 8
        /\ Last(emitted[w]) = <<"finished", 0>>
        /\ \E u \in Runs : emitted[u] # <<>> /\ Last(emitted[u])[1] = "error"

\* C4: the heightmap of a run on which stop() has been called never becomes
\* current_heightmap and is never pushed to the preview canvas.
C4_StoppedRunNeverShown ==
    \A w \in Runs :
        Stopped(w) => current_heightmap # w /\ canvas_heightmap # w

CompletionAssigns ==
    /\ Handled("finished")
    /\ current_heightmap' = Head(events).run
    /\ current_metadata' = Metadata(Head(events).run)
    /\ current_params' = panel_params

C7_ExportNeedsHeightmap ==
    last_export.action # "none" /\ ~last_export.had_heightmap =>
        last_export.effects = {"warning"}

C7_BundleRefused ==
    /\ last_export.action = "all"
    /\ ~last_export.had_heightmap
    /\ last_export.effects = {"warning"}
    /\ current_heightmap = None

C10_EditDemotes ==
    cp.op.kind = "edit" =>
        /\ cp.emitted = GetParameters(cp)
        /\ cp.current_preset = Custom

\* C11: when the selection of a named preset whose file exists has been
\* handled, current_preset and the combo text are that name, the loading
\* flag is cleared and the file's parameters are the last emission.
C11_NamedPresetLoads ==
    LET name == cp.op.name
        file == FileOf(cp, IF name = DefaultEntry THEN "default" ELSE name)
    IN  cp.op.kind = "select" /\ name # Custom /\ file.kind # "absent" =>
            /\ cp.current_preset = name
            /\ cp.combo_text = name
            /\ ~cp.loading_preset
            /\ cp.emitted = [seed |-> file.seed, num_regions |-> file.num_regions]

(***************************************************************************)
(* SpecParams: TerrainParams and PresetManager over every document and     *)
(* every initial content of one preset file.                               *)
(***************************************************************************)
InitParams ==
    /\ MwInit /\ PanelIdle /\ CvIdle /\ TgIdle /\ FnIdle
    /\ \E files \in InitDirs : pm = PmInit(files)

NextParams ==
    \/ \E kwargs \in KwArgs : CallTerrainParams(kwargs)
    \/ \E doc \in Docs : CallFromJson(doc)
    \/ \E seed_value \in SeedVals, num_regions \in RegionVals :
            CallGetParameters(seed_value, num_regions)
    \/ RoundTrip
    \/ \E glob \in AllGlobOrders : CallListPresets(glob)
    \/ \E preset_name \in PresetNames : CallLoadPreset(preset_name)
    \/ \E preset_name \in PresetNames, params \in SavedRecords :
            CallSavePreset(preset_name, params)
    \/ \E preset_name \in PresetNames : CallDeletePreset(preset_name)

SpecParams == InitParams /\ [][NextParams]_vars

(***************************************************************************)
(* Properties of TerrainParams and PresetManager                           *)
(***************************************************************************)
\* C12: every record a producer returns (the constructor, from_json,
\* get_parameters, load_preset) has a 2-tuple as size and a seed that is
\* not 0.
C12_RecordsNormalised ==
    Produced(pm) =>
        /\ pm.result.value["size"].t = "tuple"
        /\ Len(pm.result.value["size"].v) = 2
        /\ pm.result.value["seed"] # PyInt(0)

\* C13: from_json(to_json(p)) returns a record whose every field equals the
\* field of p, for every record p a producer returned.
C13_RoundTrip ==
    pm.call = "round_trip" =>
        /\ pm.result.raised = ""
        /\ \A k \in FieldNames : pm.result.value[k] = pm.arg[k]

\* C14: from_json of a document mixing known and unknown keys returns a
\* record: a field missing from the document has its default, a field in
\* the document has the document's value (a size array as a tuple, a seed of
\* 0 as absent), and the unknown keys change nothing.
C14_UnknownKeysIgnored ==
    pm.call = "from_json" =>
        /\ pm.result.raised = ""
        /\ \A k \in FieldNames :
            LET got == pm.result.value[k]
            IN  IF k \notin DOMAIN pm.arg THEN got = FieldDefaults[k]
                ELSE IF k = "size" THEN got = PyTuple(pm.arg[k].v)
                ELSE IF pm.arg[k] \in {JNull, JNum(0)} THEN got = PyNone
                ELSE got = PyInt(pm.arg[k].v[1])

\* C15: the record load_preset returns has the fields of the data model as
\* its only attributes, and a field the document does not name has its
\* default: a key that is not a field has no effect.
C15_OnlyFieldsCopied ==
    pm.call = "load_preset" =>
        /\ DOMAIN pm.result.value = FieldNames
        /\ \A k \in FieldNames \ DOMAIN pm.files[PresetPath(pm.name)].doc :
                pm.result.value[k] = FieldDefaults[k]

\* C16: list_presets returns the names saved and not deleted since, each
\* once, in increasing order.
C16_ListingIsSavedNames ==
    pm.call = "list_presets" =>
        /\ Range(pm.listing) = pm.saved
        /\ \A i, j \in DOMAIN pm.listing :
                i < j => StrLess(pm.listing[i], pm.listing[j])

\* C17: load_preset of a name that has no file returns, without raising, a
\* record whose every field has its default, and leaves the directory as
\* it was.
C17_AbsentLoadsDefaults ==
    [][pm'.call = "load_preset" /\ ~pm.files[PresetPath(pm'.name)].exists =>
            /\ pm'.result.raised = ""
            /\ \A k \in FieldNames : pm'.result.value[k] = FieldDefaults[k]
            /\ pm'.files = pm.files]_vars

\* A name without a file has been loaded from a directory that holds the
\* file of another name
C17_AbsentLoaded ==
    /\ pm.call = "load_preset"
    /\ ~pm.files[PresetPath(pm.name)].exists
    /\ Present(pm.files) # {}
    /\ pm.result = Returned(DefaultTerrainParams)

(***************************************************************************)
(* SpecZoom: the canvas under every event, zoom followed over its whole    *)
(* range.  SpecDrag: the same events, pan and rotation followed.           *)
(***************************************************************************)
InitCanvas == MwInit /\ PanelIdle /\ PmIdle /\ CvIdle /\ TgIdle /\ FnIdle

NextZoom == CanvasEvent(ZoomLimits)
SpecZoom == InitCanvas /\ [][NextZoom]_vars

NextDrag == CanvasEvent(DragLimits)
SpecDrag == InitCanvas /\ [][NextDrag]_vars

(***************************************************************************)
(* Properties of the preview canvas                                        *)
(***************************************************************************)
\* C18: the zoom level lies in [0.1, 10.0] in every reachable state.
C18_ZoomClamped == 10 <= cv.zoom_level /\ cv.zoom_level <= 1000

\* C19: rotation_x lies in [-90, 90] in every reachable state, and a mouse
\* move during a drag in 3D mode changes rotation_y by exactly half the
\* horizontal distance from the previous position, without clamping.
C19_PitchClampedYawFree ==
    /\ [](-90 <= cv.rotation_x /\ cv.rotation_x <= 90)
    /\ [][cv'.moved_to # NoPos /\ cv.is_dragging /\ cv.last_mouse_pos # NoPos
            /\ cv.view_mode = "3D" =>
                2 * (cv'.rotation_y - cv.rotation_y)
                    = cv'.moved_to[1] - cv.last_mouse_pos[1]]_vars

(***************************************************************************)
(* SpecGenerator: runs of the pipeline, one after the other, each on a     *)
(* fresh TerrainGenerator or on one used before.                           *)
(***************************************************************************)
InitGenerator == MwInit /\ PanelIdle /\ PmIdle /\ CvIdle /\ TgIdle /\ FnIdle

NextGenerator ==
    \/ \E g \in Gens, params \in GenParams : StartRun(g, params)
    \/ \E random_int \in RandomInts : GenerateTectonicBase(random_int)
    \/ GenerateRegions
    \/ GenerateClimate
    \/ SimulateErosion
    \/ PostProcess

SpecGenerator == InitGenerator /\ [][NextGenerator]_vars

(***************************************************************************)
(* Properties of the terrain generator                                     *)
(***************************************************************************)
\* C20: two completed runs of the pipeline with the same explicit seed and
\* the same parameters have the same heightmap, whether their generators
\* were fresh or had made a run before.
C20_SameSeedSameHeightmap ==
    \A a, b \in tg.done :
        a.params = b.params /\ a.params.seed # NoSeed => a.heightmap = b.heightmap

\* The same seeded parameters have been run on a fresh generator and on one
\* that had made a run before
C20_FreshAndReused ==
    \E a, b \in tg.done :
        /\ a.params = b.params /\ a.params.seed # NoSeed
        /\ a.params.num_regions > 1
        /\ ~a.reused /\ b.reused

(***************************************************************************)
(* SpecRegions: generate_regions on small maps, for every outcome of the   *)
(* placing of the centers and two noise fields for each region.            *)
(***************************************************************************)
InitRegions ==
    /\ MwInit /\ PanelIdle /\ PmIdle /\ CvIdle /\ TgIdle
    /\ fn \in RegionCalls(RegionSizes)

NextRegions == CallGenerateRegions
SpecRegions == InitRegions /\ [][NextRegions]_vars

\* C21: for num_regions N > 1 the distinct values of the region map that
\* generate_regions returns are exactly 0..N-1: every region owns a cell,
\* whichever centers were placed and whether or not distances are perturbed.
C21_EveryRegionOwnsACell ==
    (fn.name = "generate_regions" /\ fn.returned /\ fn.num_regions > 1)
        => Values(fn.region_map) = 0..(fn.num_regions - 1)

(***************************************************************************)
(* SpecErosion: simulate_erosion statement by statement, for parameters    *)
(* on both sides of every threshold.                                       *)
(***************************************************************************)
InitErosion ==
    /\ MwInit /\ PanelIdle /\ PmIdle /\ CvIdle /\ TgIdle
    /\ fn \in ErosionCalls

NextErosion ==
    \/ ErosionLoop
    \/ ErosionHydraulic
    \/ ErosionThermal
    \/ ErosionWind
    \/ ErosionReturn
SpecErosion == InitErosion /\ [][NextErosion]_vars

MechanismRank == [hydraulic |-> 1, thermal |-> 2, wind |-> 3]
Mechanisms == {"hydraulic", "thermal", "wind"}
PassesOf(eroded) ==
    {i \in DOMAIN eroded : eroded[i].mechanism \in Mechanisms}

\* C22: in each of the erosion_iterations passes the mechanisms are applied
\* in the order hydraulic, thermal, wind, each only under its guard; so with
\* precipitation = 0 or river_intensity = 0 the hydraulic step never alters
\* the heightmap, and with wind_intensity = 0 or precipitation >= 0.4 the
\* wind step never alters it: a step alters the heightmap only by applying
\* its own mechanism once.
C22_OrderAndGuards ==
    /\ [](fn.name = "simulate_erosion" =>
            LET eroded == fn.eroded
                p == fn.params
            IN  /\ \A i \in PassesOf(eroded) :
                      /\ eroded[i].iteration < p.erosion_iterations
                      /\ eroded[i].mechanism = "hydraulic" =>
                            (p.precipitation > 10 /\ p.river_intensity > 10)
                      /\ eroded[i].mechanism = "thermal" => p.temperature < 80
                      /\ eroded[i].mechanism = "wind" =>
                            (p.wind_intensity > 30 /\ p.precipitation < 40)
                /\ \A i \in PassesOf(eroded) : \A j \in PassesOf(eroded) :
                      i < j =>
                        \/ eroded[i].iteration < eroded[j].iteration
                        \/ /\ eroded[i].iteration = eroded[j].iteration
                           /\ MechanismRank[eroded[i].mechanism]
                                < MechanismRank[eroded[j].mechanism])
    /\ [][fn.name = "simulate_erosion" =>
            /\ (fn.pc = "hydraulic" /\ (fn.params.precipitation = 0
                                        \/ fn.params.river_intensity = 0))
                  => fn'.eroded = fn.eroded
            /\ (fn.pc = "wind" /\ (fn.params.wind_intensity = 0
                                   \/ fn.params.precipitation >= 40))
                  => fn'.eroded = fn.eroded
            /\ fn.pc \in Mechanisms =>
                  fn'.eroded \in {fn.eroded,
                                  Applied(fn.eroded, fn.iteration, fn.pc)}
            /\ fn.pc = "for" => fn'.eroded = fn.eroded]_vars

\* C22 witness: a call has returned after two passes that each applied all
\* three mechanisms
C22_AllThreeTwice ==
    /\ fn.name = "simulate_erosion" /\ fn.returned
    /\ fn.params.erosion_iterations = 2
    /\ Cardinality(PassesOf(fn.eroded)) = 6

(***************************************************************************)
(* SpecCoast: post_process on maps whose shorter side puts cells on both    *)
(* sides of each threshold of the coastal mask.                            *)
(***************************************************************************)
InitCoast ==
    /\ MwInit /\ PanelIdle /\ PmIdle /\ CvIdle /\ TgIdle
    /\ fn \in CoastCalls(CoastSizes)

NextCoast == CallPostProcess
SpecCoast == InitCoast /\ [][NextCoast]_vars

\* The mask the statement gives a cell, in hundredths: n is
\* 2 * d / min(width, height), d the distance to the nearest edge
StatedMask(c, width, height, distance_to_coast) ==
    LET d == CHOOSE k \in 0..Max(width, height) :
                /\ k \in {c[1], width - 1 - c[1], c[2], height - 1 - c[2]}
                /\ \A e \in {c[1], width - 1 - c[1], c[2], height - 1 - c[2]} :
                       k <= e
        n10 == 20 * d      \* 10 * n * min(width, height)
        one == Min(width, height)
    IN  IF distance_to_coast >= 30 THEN 100
        ELSE IF n10 < one THEN 10
        ELSE IF n10 < 2 * one THEN 30
        ELSE 100

\* C23: with d the distance of a cell to the nearest edge and
\* n = 2*d/min(width,height), the coastal mask is 0.1 if n < 0.1, 0.3 if
\* 0.1 <= n < 0.2 and 1.0 otherwise when distance_to_coast < 0.3, and
\* post_process multiplies the cell by 0.3 + 0.7 * mask; when
\* distance_to_coast >= 0.3 the mask is 1.0 in every cell and post_process
\* applies no coastal multiplication.
C23_CoastalMask ==
    (fn.name = "post_process" /\ fn.returned) =>
        LET width == fn.size[1]
            height == fn.size[2]
            dtc == fn.distance_to_coast
            given == Field(fn.kind, fn.level, width, height)
            mask == _create_coastal_mask(width, height, dtc)
        IN  \A c \in Cells(width, height) :
               /\ mask[c] = StatedMask(c, width, height, dtc)
               /\ dtc < 30 =>
                      fn.coasted[c] = Max(given[c], 0)
                          * (30 + (70 * StatedMask(c, width, height, dtc)) \div 100)
               /\ dtc >= 30 => fn.coasted[c] = Max(given[c], 0) * 100

\* C23 witness: post_process has returned a coastal map with an ocean cell,
\* a cell of the coastal band and a land cell, each multiplied as stated
C23_ThreeZones ==
    /\ fn.name = "post_process" /\ fn.returned
    /\ fn.distance_to_coast < 30 /\ fn.kind = "level" /\ fn.level = 100
    /\ {3700, 5100, 10000} \subseteq Values(fn.coasted)

(***************************************************************************)
(* SpecStages: the four stages that hand on a heightmap or a climate map,  *)
(* in numbers, on a 4 x 4 map.                                             *)
(***************************************************************************)
InitStages ==
    /\ MwInit /\ PanelIdle /\ PmIdle /\ CvIdle /\ TgIdle
    /\ fn \in StageCalls \cup CoastCalls({StageSize})

NextStages ==
    \/ CallGenerateTectonicBase
    \/ CallGenerateClimate
    \/ CallSimulateErosion
    \/ CallPostProcess
SpecStages == InitStages /\ [][NextStages]_vars

\* The array a call of a stage was given
GivenTo(call) ==
    IF call.name = "post_process"
    THEN Field(call.kind, call.level, call.size[1], call.size[2])
    ELSE call.given

\* C24: what generate_tectonic_base, generate_climate, simulate_erosion and
\* post_process return has minimum about 0 and maximum about 1 (to the
\* hundredth) when the array the stage was given is not constant, and holds
\* no NaN and no infinite value when it is constant.
C24_StagesRescaled ==
    fn.returned =>
        LET given == GivenTo(fn)
        IN  IF Cardinality(Values(given)) > 1
            THEN /\ Lowest(fn.out) \in -1..1
                 /\ Highest(fn.out) \in 99..101
            ELSE \A c \in DOMAIN fn.out :
                    fn.out[c] \notin {NaN, Infinity, -Infinity}

(***************************************************************************)
(* The random source of a run (SpecGenerator)                              *)
(***************************************************************************)
\* C25: in one run of the pipeline the random source is seeded exactly
\* once, in generate_tectonic_base and before any draw; no later stage
\* seeds again or draws from a source that is unseeded or was used by an
\* earlier run, in the order in which the worker calls the stages.
C25_SeededOnceFirst ==
    /\ tg.run.pc = "tectonic" =>
          /\ tg.run.seedings = 0 /\ ~tg.run.stale
          /\ tg.run.tectonic_layer = NoLayer
    /\ tg.run.pc \in {"regions", "climate", "erosion", "post"} =>
          /\ tg.run.seedings = 1
          /\ tg.run.seeded_in = {"tectonic"}
          /\ ~tg.run.stale
          /\ tg.fresh[tg.run.gen] /\ tg.rng[tg.run.gen] # NoRng
    /\ \A d \in tg.done :
          d.seedings = 1 /\ d.seeded_in = {"tectonic"} /\ ~d.stale

\* C25 witness: a run with more than one region has completed on a
\* generator whose source an earlier run had used
C25_ReusedCompleted ==
    \E d \in tg.done : d.reused /\ d.params.num_regions > 1 /\ d.seedings = 1

(***************************************************************************)
(* SpecEvents: one wheel event or one mouse move on a canvas in any view.  *)
(***************************************************************************)
InitEvents ==
    /\ MwInit /\ PanelIdle /\ PmIdle /\ CvIdle /\ TgIdle
    /\ fn \in CanvasCalls

NextEvents ==
    \/ CallWheelEvent
    \/ CallMouseMoveEvent
SpecEvents == InitEvents /\ [][NextEvents]_vars

\* C26: a wheel event changes the zoom level only in 2D mode, to 1.1 or 0.9
\* times itself within the clamp, and changes nothing else; in 3D mode it
\* leaves zoom, pan and both rotation angles as they were.  A mouse move of
\* a left drag changes only the pan offset in 2D mode and only the rotation
\* angles in 3D mode.
C26_WheelAndDragFrame ==
    fn.returned =>
        LET st == fn.st
            out == fn.out
        IN  /\ (fn.name = "wheelEvent" /\ st.view_mode = "2D") =>
                  /\ out.zoom_level \in
                        {Max(10, Min(1000, ZoomIn(st.zoom_level))),
                         Max(10, Min(1000, ZoomOut(st.zoom_level)))}
                  /\ out = [st EXCEPT !.zoom_level = out.zoom_level]
            /\ (fn.name = "wheelEvent" /\ st.view_mode = "3D") =>
                  /\ out.zoom_level = st.zoom_level
                  /\ out.pan_offset = st.pan_offset
                  /\ out.rotation_x = st.rotation_x
                  /\ out.rotation_y = st.rotation_y
            /\ (fn.name = "mouseMoveEvent" /\ st.view_mode = "2D") =>
                  out = [st EXCEPT !.pan_offset = out.pan_offset,
                                   !.last_mouse_pos = out.last_mouse_pos]
            /\ (fn.name = "mouseMoveEvent" /\ st.view_mode = "3D") =>
                  out = [st EXCEPT !.rotation_x = out.rotation_x,
                                   !.rotation_y = out.rotation_y,
                                   !.last_mouse_pos = out.last_mouse_pos]

\* C26 witness: a wheel event has zoomed a 2D canvas
C26_Zoomed ==
    /\ fn.name = "wheelEvent" /\ fn.returned
    /\ fn.st.view_mode = "2D" /\ fn.out.zoom_level # fn.st.zoom_level

(***************************************************************************)
(* Saving and loading a preset (SpecParams)                                *)
(***************************************************************************)
\* C27: load_preset(n) right after save_preset(n, p) returns a record whose
\* every field equals the field of p; size is a tuple equal to p.size.
C27_SaveThenLoad ==
    [][(pm.call = "save_preset" /\ pm'.call = "load_preset" /\ pm'.name = pm.name)
        => \A p \in SavedRecords :
              pm.files[PresetPath(pm.name)] = FileWith(json_dumps(p))
                  => /\ pm'.result.raised = ""
                     /\ \A k \in FieldNames : pm'.result.value[k] = p[k]]_vars

(***************************************************************************)
(* The parameters and the controls around a run (SpecWindow, Spec)         *)
(***************************************************************************)
\* C28: when a successful completion is handled, current_params becomes the
\* parameter record the completed run was started with, the one in that
\* run's metadata, whatever the menu actions (reset, paste, open parameters,
\* preset quick-load) did to the controls while the run was under way.
C28_ParamsOfCompletedRun ==
    [][Handled("finished") =>
          /\ current_metadata' = Metadata(Head(events).run)
          /\ current_params' = current_metadata'.params]_vars

(***************************************************************************)
(* SpecWind: the wind step on a row of heights of either sign.             *)
(***************************************************************************)
InitWind ==
    /\ MwInit /\ PanelIdle /\ PmIdle /\ CvIdle /\ TgIdle
    /\ fn \in WindCalls

NextWind == CallSimulateWindErosion
SpecWind == InitWind /\ [][NextWind]_vars

\* C29: the wind step never raises a cell, whatever the sign of the heights
\* and for every wind_intensity in [0, 1]: each cell of the result is at
\* most the cell it was given, column 0 is unchanged, and a cell that is
\* not higher than its left neighbour is unchanged.
C29_WindNeverRaises ==
    (fn.name = "_simulate_wind_erosion" /\ fn.returned) =>
        \A c \in DOMAIN fn.heightmap :
            /\ fn.out[c] <= fn.heightmap[c] * 1000
            /\ c[1] = 0 => fn.out[c] = fn.heightmap[c] * 1000
            /\ (c[1] > 0 /\ fn.heightmap[c] <= fn.heightmap[<<c[1] - 1, c[2]>>])
                  => fn.out[c] = fn.heightmap[c] * 1000

\* The started notification of run w has been handled
StartedHandled(w) ==
    /\ emitted[w] # <<>>
    /\ \A i \in DOMAIN events :
          ~(events[i].run = w /\ events[i].kind = "started")

\* Run w is in flight: started and yet to emit its last notification
InFlight(w) == threads[w].pc \in PipelinePcs

\* C30: the control panel is disabled and the progress bar visible exactly
\* while a run is in flight: when some worker is still in flight after its
\* started notification was handled the control panel is disabled, and when
\* no worker is in flight and every notification has been handled the
\* control panel is enabled and the progress bar hidden.
C30_ControlsFollowRun ==
    /\ (\E w \in Runs : InFlight(w) /\ StartedHandled(w)) => ~panel_enabled
    /\ ((\A w \in Runs : ~InFlight(w)) /\ events = <<>>) =>
          (panel_enabled /\ ~progress_visible)
====
